---------------------------- MODULE Spec2Model ----------------------------
(***************************************************************************)
(* A model of caen_libs: the binding layer of the CAEN HV wrapper library  *)
(* (caenhvwrapper.py) and its buffer decoders (_utils.py).                 *)
(*                                                                         *)
(* The native library is the environment: every native call returns a     *)
(* status chosen nondeterministically, and fills its output parameters    *)
(* with values chosen nondeterministically.  Each public method of Device  *)
(* is one action.  The action records in `calls` the external calls        *)
(* (native entry points and socket operations) the method issued, in       *)
(* order, and in `exc` the exception it left with.                         *)
(***************************************************************************)
EXTENDS Integers, Sequences, FiniteSets, TLC

(***************************************************************************)
(* Bounds of the model.                                                    *)
(***************************************************************************)
MaxHandle == 1
MaxStrLen == 2
MaxStrings == 2
MaxParams == 3
MaxBoards == 2
MaxAddr == 3
MaxDepth == 2

(***************************************************************************)
(* ErrorCode (::CAENHVRESULT)                                              *)
(***************************************************************************)
OK == 0
SYSERR == 1
NOTYETIMPLEMENTED == 30
CONNECTED == 4097
USERPASSFAILED == 4103

ErrorCode == (OK .. NOTYETIMPLEMENTED) \cup (CONNECTED .. USERPASSFAILED)

(***************************************************************************)
(* SystemType: only the distinction R6060 / other matters to the code.    *)
(***************************************************************************)
SY4527 == 2
R6060 == 16
SystemType == {SY4527, R6060}

(***************************************************************************)
(* Exceptions.  A uniform record: type, and for Error the code and the     *)
(* name of the failed function, for the subscribe RuntimeError the failed  *)
(* indices.                                                                *)
(***************************************************************************)
NoExc == [type |-> "none", code |-> 0, func |-> "", failed |-> <<>>]

Raise(type) == [type |-> type, code |-> 0, func |-> "", failed |-> <<>>]

\* Error.__init__: ErrorCode(res) is a lookup in the closed enumeration and
\* raises ValueError for an integer that is no member.
Error(res, func) ==
    IF res \in ErrorCode
    THEN [type |-> "Error", code |-> res, func |-> func, failed |-> <<>>]
    ELSE Raise("ValueError")

\* _Lib.__get: the bound function is the library's symbol CAENHV_<name>, and
\* that symbol's name is its __name__.
bound_name(name) == "CAENHV_" \o name

\* A mutant of the post-call check: only negative statuses raise.
api_errcheck_negative(res, name) ==
    IF res < OK
    THEN [raised |-> TRUE, ret |-> -1, exc |-> Error(res, bound_name(name))]
    ELSE [raised |-> FALSE, ret |-> res, exc |-> NoExc]

\* _Lib.__api_errcheck: the post-call check installed on every bound function.
api_errcheck(res, name) ==
    IF res # OK
    THEN [raised |-> TRUE, ret |-> -1, exc |-> Error(res, bound_name(name))]
    ELSE [raised |-> FALSE, ret |-> res, exc |-> NoExc]

(***************************************************************************)
(* The native entry points bound through _Lib.__get.                       *)
(***************************************************************************)
ApiNames ==
    { "GetEventData", "FreeEventData", "Free", "InitSystem", "DeinitSystem",
      "GetCrateMap", "GetSysPropList", "GetSysPropInfo", "GetSysProp",
      "SetSysProp", "GetBdParam", "SetBdParam", "GetBdParamProp",
      "GetBdParamInfo", "TestBdPresence", "GetChParamProp", "GetChParamInfo",
      "GetChName", "SetChName", "GetChParam", "SetChParam",
      "GetExecCommList", "ExecComm", "SubscribeSystemParams",
      "SubscribeBoardParams", "SubscribeChannelParams",
      "UnSubscribeSystemParams", "UnSubscribeBoardParams",
      "UnSubscribeChannelParams" }

(***************************************************************************)
(* Buffer decoders of _utils.py.                                           *)
(*                                                                         *)
(* Memory is a sequence of bytes; address a is element a + 1.  A str is a  *)
(* sequence of code points.  bytes.decode() and str.encode() are UTF-8,    *)
(* modelled for code points below 2048 (one or two bytes).                 *)
(***************************************************************************)
NUL == 0

\* the code points the strings of the model are made of: 'a' and 'e-acute'
Chars == {97, 233}

utf8_char(c) == IF c < 128 THEN <<c>> ELSE <<192 + (c \div 64), 128 + (c % 64)>>

RECURSIVE encode(_)
encode(s) == IF s = <<>> THEN <<>> ELSE utf8_char(Head(s)) \o encode(Tail(s))

IsCont(b) == b >= 128 /\ b < 192

\* bytes.decode(): the str, or UnicodeDecodeError (ok = FALSE)
RECURSIVE decode(_)
decode(b) ==
    IF b = <<>> THEN [ok |-> TRUE, s |-> <<>>]
    ELSE IF b[1] < 128
    THEN LET r == decode(Tail(b)) IN [ok |-> r.ok, s |-> <<b[1]>> \o r.s]
    ELSE IF b[1] >= 194 /\ b[1] < 224 /\ Len(b) >= 2 /\ IsCont(b[2])
    THEN LET r == decode(Tail(Tail(b))) IN
         [ok |-> r.ok, s |-> <<(b[1] - 192) * 64 + (b[2] - 128)>> \o r.s]
    ELSE [ok |-> FALSE, s |-> <<>>]

\* ctypes.string_at(addr): the bytes from addr up to the first NUL.  Memory
\* past the end of the buffer is not modelled: the read stops there and
\* overruns(mem, addr) tells that it left the buffer.
RECURSIVE string_at(_, _)
string_at(mem, addr) ==
    IF addr >= Len(mem) \/ mem[addr + 1] = NUL THEN <<>>
    ELSE <<mem[addr + 1]>> \o string_at(mem, addr + 1)

overruns(mem, addr) == addr + Len(string_at(mem, addr)) >= Len(mem)

\* What a decoder's generator produced: the strings yielded, the exception
\* that ended it, whether a read left the buffer, whether a pointer was
\* dereferenced.
Dec0 == [out |-> <<>>, exc |-> "none", overrun |-> FALSE, deref |-> FALSE]

\* One pass of a decoder's loop body over the string at addr.
yield_at(mem, addr, acc) ==
    LET value == string_at(mem, addr)
        d == decode(value)
    IN  IF overruns(mem, addr) THEN [acc EXCEPT !.overrun = TRUE]
        ELSE IF ~d.ok THEN [acc EXCEPT !.exc = "UnicodeDecodeError"]
        ELSE [acc EXCEPT !.out = Append(@, d.s)]

Stopped(acc) == acc.exc # "none" \/ acc.overrun

\* A mutant: the address advances by the length of the decoded str.
str_from_char_advance_decoded(value) == Len(decode(value).s) + 1

\* str_from_char, line 200: data_addr += len(value) + 1
str_from_char_advance(value) == Len(value) + 1

RECURSIVE str_from_char_loop(_, _, _, _)
str_from_char_loop(mem, addr, k, acc) ==
    IF k <= 0 \/ Stopped(acc) THEN acc
    ELSE str_from_char_loop(mem,
                            addr + str_from_char_advance(string_at(mem, addr)),
                            k - 1, yield_at(mem, addr, acc))

str_from_char(mem, n_strings) == str_from_char_loop(mem, 0, n_strings, Dec0)

\* A pointer: NULL, or the address of a buffer.
NullPtr == [null |-> TRUE, mem |-> <<>>]
PtrTo(mem) == [null |-> FALSE, mem |-> mem]

\* data.contents raises ValueError (NULL pointer access) on a NULL pointer.
NullDeref == [Dec0 EXCEPT !.exc = "ValueError", !.deref = TRUE]

\* A mutant: the pointer is dereferenced whatever the count.
str_from_char_p_unguarded(data, n_strings) ==
    IF data.null THEN NullDeref
    ELSE [str_from_char(data.mem, n_strings) EXCEPT !.deref = TRUE]

str_from_char_p(data, n_strings) ==
    IF n_strings # 0
    THEN IF data.null THEN NullDeref
         ELSE [str_from_char(data.mem, n_strings) EXCEPT !.deref = TRUE]
    ELSE Dec0

RECURSIVE str_from_char_array_loop(_, _, _, _)
str_from_char_array_loop(mem, addr, string_size, acc) ==
    IF Stopped(acc) THEN acc
    ELSE IF overruns(mem, addr) THEN [acc EXCEPT !.overrun = TRUE]
    ELSE IF Len(string_at(mem, addr)) = 0 THEN acc
    ELSE str_from_char_array_loop(mem, addr + string_size, string_size,
                                  yield_at(mem, addr, acc))

str_from_char_array(mem, string_size) ==
    str_from_char_array_loop(mem, 0, string_size, Dec0)

RECURSIVE str_from_n_char_array_loop(_, _, _, _, _)
str_from_n_char_array_loop(mem, addr, string_size, k, acc) ==
    IF k <= 0 \/ Stopped(acc) THEN acc
    ELSE str_from_n_char_array_loop(mem, addr + string_size, string_size,
                                    k - 1, yield_at(mem, addr, acc))

str_from_n_char_array(mem, string_size, n_strings) ==
    str_from_n_char_array_loop(mem, 0, string_size, n_strings, Dec0)

str_from_n_char_array_p(data, string_size, n_strings) ==
    IF n_strings # 0
    THEN IF data.null THEN NullDeref
         ELSE [str_from_n_char_array(data.mem, string_size, n_strings)
                  EXCEPT !.deref = TRUE]
    ELSE Dec0

(***************************************************************************)
(* Registers of _utils.py.  A key is an int or a slice or neither; the     *)
(* start, stop and step of a slice are sets: empty for None, else holding  *)
(* the number.  A value is an int or a sequence of ints.                   *)
(***************************************************************************)
\* range(start, stop, step), step # 0
RECURSIVE range(_, _, _)
range(start, stop, step) ==
    IF (step > 0 /\ start < stop) \/ (step < 0 /\ start > stop)
    THEN <<start>> \o range(start + step, stop, step)
    ELSE <<>>

\* A mutant: a step of 0 counts as no step.
get_addresses_step_or_1(key) ==
    IF key.start = {} \/ key.stop = {}
    THEN [exc |-> "ValueError", addresses |-> <<>>]
    ELSE LET step == IF key.step \in {{}, {0}} THEN 1
                     ELSE CHOOSE x \in key.step : TRUE
         IN  [exc |-> "none",
              addresses |-> range(CHOOSE x \in key.start : TRUE,
                                  CHOOSE x \in key.stop : TRUE, step)]

\* Registers.__get_addresses; range() raises ValueError on a step of 0
get_addresses(key) ==
    IF key.start = {} \/ key.stop = {}
    THEN [exc |-> "ValueError", addresses |-> <<>>]
    ELSE LET step == IF key.step = {} THEN 1 ELSE CHOOSE x \in key.step : TRUE
         IN  IF step = 0 THEN [exc |-> "ValueError", addresses |-> <<>>]
             ELSE [exc |-> "none",
                   addresses |-> range(CHOOSE x \in key.start : TRUE,
                                       CHOOSE x \in key.stop : TRUE, step)]

\* Registers.multi_get: the callables invoked, in order, with their arguments
multi_get(addresses, multi) ==
    IF multi
    THEN <<[fn |-> "multi_getter", addresses |-> addresses, values |-> <<>>]>>
    ELSE [i \in 1 .. Len(addresses) |->
            [fn |-> "getter", addresses |-> <<addresses[i]>>,
             values |-> <<>>]]

\* Registers.multi_set; zip stops at the shorter of the two
multi_set(addresses, values, multi) ==
    IF multi
    THEN <<[fn |-> "multi_setter", addresses |-> addresses,
            values |-> values]>>
    ELSE [i \in 1 .. (IF Len(addresses) < Len(values) THEN Len(addresses)
                      ELSE Len(values)) |->
            [fn |-> "setter", addresses |-> <<addresses[i]>>,
             values |-> <<values[i]>>]]

\* Registers.__getitem__
getitem(key, multi) ==
    IF key.kind = "int"
    THEN [exc |-> "none", log |-> multi_get(<<key.at>>, FALSE)]
    ELSE IF key.kind = "slice"
    THEN LET a == get_addresses(key) IN
         IF a.exc # "none" THEN [exc |-> a.exc, log |-> <<>>]
         ELSE [exc |-> "none", log |-> multi_get(a.addresses, multi)]
    ELSE [exc |-> "TypeError", log |-> <<>>]

\* Registers.__setitem__
setitem(key, value, multi) ==
    IF key.kind = "int"
    THEN [exc |-> "none",
          log |-> <<[fn |-> "setter", addresses |-> <<key.at>>,
                     values |-> value.items]>>]
    ELSE IF key.kind = "slice" /\ value.is_seq
    THEN LET a == get_addresses(key) IN
         IF a.exc # "none" THEN [exc |-> a.exc, log |-> <<>>]
         ELSE IF Len(value.items) # Len(a.addresses)
         THEN [exc |-> "ValueError", log |-> <<>>]
         ELSE [exc |-> "none",
               log |-> multi_set(a.addresses, value.items, multi)]
    ELSE [exc |-> "TypeError", log |-> <<>>]

(***************************************************************************)
(* The layouts the native library fills the buffers with.                  *)
(***************************************************************************)
\* the strings back to back, each followed by its NUL
RECURSIVE nul_separated(_)
nul_separated(strs) ==
    IF strs = <<>> THEN <<>>
    ELSE encode(Head(strs)) \o <<NUL>> \o nul_separated(Tail(strs))

\* one slot of string_size bytes: the string, its NUL, then bytes the
\* decoder must not read (pad)
slot_of(s, string_size, pad) ==
    [i \in 1 .. string_size |->
        IF i <= Len(encode(s)) THEN encode(s)[i]
        ELSE IF i = Len(encode(s)) + 1 THEN NUL ELSE pad]

RECURSIVE fixed_stride(_, _, _)
fixed_stride(strs, string_size, pad) ==
    IF strs = <<>> THEN <<>>
    ELSE slot_of(Head(strs), string_size, pad)
         \o fixed_stride(Tail(strs), string_size, pad)

\* the slots followed by the empty string that ends the list
fixed_stride_terminated(strs, string_size, pad) ==
    fixed_stride(strs, string_size, pad) \o slot_of(<<>>, string_size, pad)

VARIABLES
    exists,        \* a Device object has been constructed by open()
    handle,        \* Device.handle
    opened,        \* Device.opened
    system_type,   \* Device.system_type
    conn,          \* Device.link_type, arg, username, password
    port,          \* Device.port
    skt_server,    \* Device.skt_server (0 is None, else the socket's id)
    skt_client,    \* Device.skt_client (0 is None, else the socket's id)
    op,            \* the method that ran last, with its arguments
    calls,         \* the external calls that method issued, in order
    exc,           \* the exception that method left with (NoExc: it returned)
    nat_handle,    \* native layer: handle given by the last successful InitSystem
    nat_open,      \* native layer: that session has not been deinitialised
    n_listen,      \* sockets the Device put into listening state so far
    n_accept,      \* client sockets the Device obtained so far
    subscribed,    \* a subscribe method has been called on the Device
    blocks,        \* the with blocks entered and not left, innermost last
    e_res, e_name, e_out,  \* the post-call check applied to one status
    c_strs,        \* decoders: the strings the buffer was built from
    c_size,        \* decoders: the stride of the fixed-stride layouts
    c_pad,         \* decoders: the byte that fills a slot after the NUL
    c_fn,          \* decoders: the decoder applied ("" before)
    c_n,           \* decoders: the count passed (None: the decoder takes none)
    c_null,        \* decoders: the pointer passed was NULL
    c_res,         \* decoders: what the decoder produced
    r_key,         \* Registers: the key of the subscription
    r_value,       \* Registers: the value assigned
    r_multi,       \* Registers: multi_getter and multi_setter are given
    r_fn,          \* Registers: the operator applied ("" before)
    r_res          \* Registers: what it raised and the callables it invoked

devvars == <<exists, handle, opened, system_type, conn, port, skt_server,
             skt_client, op, calls, exc, nat_handle, nat_open, n_listen,
             n_accept, subscribed, blocks>>
errvars == <<e_res, e_name, e_out>>
decvars == <<c_strs, c_size, c_pad, c_fn, c_n, c_null, c_res>>
regvars == <<r_key, r_value, r_multi, r_fn, r_res>>
vars == <<devvars, errvars, decvars, regvars>>

(***************************************************************************)
(* Values of the model.                                                    *)
(***************************************************************************)
Handles == 0 .. MaxHandle

\* The statuses the native layer answers a Device method with.
Statuses == {OK, SYSERR}

None == -1

NoConn == [link_type |-> None, arg |-> "", username |-> "", password |-> ""]

\* The connection a Device is opened with: LinkType.TCPIP = 0.
ConnArgs ==
    { [link_type |-> 0, arg |-> "192.0.2.1", username |-> "admin",
       password |-> "admin"] }

\* One external call: the entry point and the arguments the claims read.
Call0 ==
    [fn |-> "", handle |-> None, name |-> "", prop |-> "", port |-> None,
     slot |-> None, idx |-> <<>>, n |-> None, sys |-> None, conn |-> NoConn]

Native(fn, h) == [Call0 EXCEPT !.fn = fn, !.handle = h]

\* the fields of the Device the subscription reads and writes
Sockets(p, server, client, listened, accepted) ==
    [port |-> p, skt_server |-> server, skt_client |-> client,
     n_listen |-> listened, n_accept |-> accepted]

\* The method that ran last, what the native layer answered it (res; and
\* res_skt, the status of R6060's read of 'EventDataSocket'), and for a
\* subscribe the socket fields it found (before) and whether a subscribe had
\* been called before it (again); for a parameter-name enumeration the
\* layout of the buffer (info) and the list returned (out); for the entry
\* and exit of a with block, opened as it was found (was_opened) and, at
\* exit, the exception the body left with (body; NoExc: it ended normally).
Op0 ==
    [name |-> "", pname |-> "", vkind |-> "", slot |-> None, idx |-> <<>>,
     n |-> 0, ptype |-> None, codes |-> <<>>, res |-> None,
     res_skt |-> None, before |-> Sockets(0, 0, 0, 0, 0), again |-> FALSE,
     etype |-> None, fails |-> {}, prop |-> [type |-> None],
     n_values |-> None,
     info |-> [strs |-> <<>>, string_size |-> 0, pad |-> 0, size |-> None],
     out |-> <<>>, was_opened |-> FALSE, body |-> NoExc]

Op(name) == [Op0 EXCEPT !.name = name]

(***************************************************************************)
(* Device.open, Device.connect, Device.close                               *)
(***************************************************************************)
\* A mutant: the credentials passed are the defaults of open.
InitSystemCall_default_credentials(sys, c) ==
    [Call0 EXCEPT !.fn = "InitSystem", !.sys = sys,
                  !.conn = [c EXCEPT !.username = "", !.password = ""]]

InitSystemCall(sys, c) ==
    [Call0 EXCEPT !.fn = "InitSystem", !.sys = sys, !.conn = c]

open ==
    /\ ~exists
    /\ \E sys \in SystemType, c \in ConnArgs, res \in Statuses, h \in Handles :
         LET chk == api_errcheck(res, "InitSystem") IN
         /\ op' = [Op("open") EXCEPT !.res = res]
         /\ calls' = <<InitSystemCall(sys, c)>>
         /\ exc' = chk.exc
         /\ IF chk.raised
            THEN UNCHANGED <<exists, handle, opened, system_type, conn, port,
                             skt_server, skt_client, nat_handle, nat_open>>
            ELSE /\ exists' = TRUE
                 /\ handle' = h
                 /\ opened' = TRUE
                 /\ system_type' = sys
                 /\ conn' = c
                 /\ port' = 0
                 /\ skt_server' = 0
                 /\ skt_client' = 0
                 /\ nat_handle' = h
                 /\ nat_open' = TRUE
    /\ UNCHANGED <<n_listen, n_accept, subscribed, errvars, decvars,
                   regvars, blocks>>

connect ==
    /\ exists
    /\ IF opened
       THEN /\ op' = Op("connect")
            /\ calls' = <<>>
            /\ exc' = Raise("RuntimeError")
            /\ UNCHANGED <<handle, opened, nat_handle, nat_open>>
       ELSE \E res \in Statuses, h \in Handles :
            LET chk == api_errcheck(res, "InitSystem") IN
            /\ op' = [Op("connect") EXCEPT !.res = res]
            /\ calls' = <<InitSystemCall(system_type, conn)>>
            /\ exc' = chk.exc
            /\ IF chk.raised
               THEN UNCHANGED <<handle, opened, nat_handle, nat_open>>
               ELSE /\ handle' = h
                    /\ opened' = TRUE
                    /\ nat_handle' = h
                    /\ nat_open' = TRUE
    /\ UNCHANGED <<exists, system_type, conn, port, skt_server, skt_client,
                   n_listen, n_accept, subscribed, errvars, decvars,
                   regvars, blocks>>

\* A mutant of close: the flag is cleared before the native call is checked.
close_flag_first ==
    /\ exists
    /\ \E res \in Statuses :
         LET chk == api_errcheck(res, "DeinitSystem") IN
         /\ op' = [Op("close") EXCEPT !.res = res]
         /\ calls' = <<Native("DeinitSystem", handle)>>
         /\ exc' = chk.exc
         /\ opened' = FALSE
         /\ nat_open' = IF chk.raised THEN nat_open ELSE FALSE
    /\ UNCHANGED <<exists, handle, system_type, conn, port, skt_server,
                   skt_client, nat_handle, n_listen, n_accept, subscribed,
                   errvars, decvars,
                   regvars, blocks>>

close ==
    /\ exists
    /\ \E res \in Statuses :
         LET chk == api_errcheck(res, "DeinitSystem") IN
         /\ op' = [Op("close") EXCEPT !.res = res]
         /\ calls' = <<Native("DeinitSystem", handle)>>
         /\ exc' = chk.exc
         /\ IF chk.raised
            THEN UNCHANGED <<opened, nat_open>>
            ELSE /\ opened' = FALSE
                 /\ nat_open' = FALSE
    /\ UNCHANGED <<exists, handle, system_type, conn, port, skt_server,
                   skt_client, nat_handle, n_listen, n_accept, subscribed,
                   errvars, decvars,
                   regvars, blocks>>

\* del device, with no reference left: __del__ closes the Device if it is
\* opened; what close raises is not propagated (it is printed and ignored),
\* and the Device is gone whatever DeinitSystem answered.  A with block
\* holds a reference to its Device.
Device_del ==
    /\ exists
    /\ blocks = <<>>
    /\ \E res \in IF opened THEN Statuses ELSE {None} :
         /\ op' = [Op("__del__") EXCEPT !.res = res, !.was_opened = opened]
         /\ calls' = IF opened THEN <<Native("DeinitSystem", handle)>>
                     ELSE <<>>
         /\ nat_open' = IF opened /\ res = OK THEN FALSE ELSE nat_open
    /\ exc' = NoExc
    /\ exists' = FALSE
    /\ handle' = None
    /\ opened' = FALSE
    /\ system_type' = None
    /\ conn' = NoConn
    /\ port' = 0
    /\ skt_server' = 0
    /\ skt_client' = 0
    /\ n_listen' = 0
    /\ n_accept' = 0
    /\ subscribed' = FALSE
    /\ UNCHANGED <<nat_handle, blocks, errvars, decvars, regvars>>

(***************************************************************************)
(* Python utilities: device_closed, __enter__ and __exit__.  The body of a *)
(* with block is any sequence of the Device's methods; blocks nest up to   *)
(* MaxDepth.                                                               *)
(***************************************************************************)
Innermost == blocks[Len(blocks)]

Left == SubSeq(blocks, 1, Len(blocks) - 1)

\* The body of a block ended normally (whatever its steps raised was caught
\* in it), or it left with the exception of its last step.
BodyOutcomes == {NoExc, exc}

\* with device.device_closed(): entry -- self.close(), then the body is
\* entered; when close raises, the body and the finally clause are not run
device_closed_enter ==
    /\ exists
    /\ Len(blocks) < MaxDepth
    /\ \E res \in Statuses :
         LET chk == api_errcheck(res, "DeinitSystem") IN
         /\ op' = [Op("device_closed_enter") EXCEPT !.res = res,
                                                    !.was_opened = opened]
         /\ calls' = <<Native("DeinitSystem", handle)>>
         /\ exc' = chk.exc
         /\ IF chk.raised
            THEN UNCHANGED <<opened, nat_open, blocks>>
            ELSE /\ opened' = FALSE
                 /\ nat_open' = FALSE
                 /\ blocks' = Append(blocks, "device_closed")
    /\ UNCHANGED <<exists, handle, system_type, conn, port, skt_server,
                   skt_client, nat_handle, n_listen, n_accept, subscribed,
                   errvars, decvars, regvars>>

\* A mutant: the Device is reconnected only when the body ended normally.
device_closed_exit_no_finally ==
    /\ exists
    /\ blocks # <<>> /\ Innermost = "device_closed"
    /\ blocks' = Left
    /\ \E body \in BodyOutcomes :
         IF opened \/ body # NoExc
         THEN /\ op' = [Op("device_closed_exit") EXCEPT !.was_opened = opened,
                                                        !.body = body]
              /\ calls' = <<>>
              /\ exc' = IF body # NoExc THEN body ELSE Raise("RuntimeError")
              /\ UNCHANGED <<handle, opened, nat_handle, nat_open>>
         ELSE \E res \in Statuses, h \in Handles :
              LET chk == api_errcheck(res, "InitSystem") IN
              /\ op' = [Op("device_closed_exit") EXCEPT !.res = res,
                                                        !.was_opened = opened,
                                                        !.body = body]
              /\ calls' = <<InitSystemCall(system_type, conn)>>
              /\ exc' = IF chk.raised THEN chk.exc ELSE body
              /\ IF chk.raised
                 THEN UNCHANGED <<handle, opened, nat_handle, nat_open>>
                 ELSE /\ handle' = h
                      /\ opened' = TRUE
                      /\ nat_handle' = h
                      /\ nat_open' = TRUE
    /\ UNCHANGED <<exists, system_type, conn, port, skt_server, skt_client,
                   n_listen, n_accept, subscribed, errvars, decvars,
                   regvars>>

\* with device.device_closed(): exit -- finally: self.connect(), whether the
\* body ended normally or not; what connect raises replaces the exception
\* of the body, which is raised again otherwise
device_closed_exit ==
    /\ exists
    /\ blocks # <<>> /\ Innermost = "device_closed"
    /\ blocks' = Left
    /\ \E body \in BodyOutcomes :
         IF opened
         THEN /\ op' = [Op("device_closed_exit") EXCEPT !.was_opened = opened,
                                                        !.body = body]
              /\ calls' = <<>>
              /\ exc' = Raise("RuntimeError")
              /\ UNCHANGED <<handle, opened, nat_handle, nat_open>>
         ELSE \E res \in Statuses, h \in Handles :
              LET chk == api_errcheck(res, "InitSystem") IN
              /\ op' = [Op("device_closed_exit") EXCEPT !.res = res,
                                                        !.was_opened = opened,
                                                        !.body = body]
              /\ calls' = <<InitSystemCall(system_type, conn)>>
              /\ exc' = IF chk.raised THEN chk.exc ELSE body
              /\ IF chk.raised
                 THEN UNCHANGED <<handle, opened, nat_handle, nat_open>>
                 ELSE /\ handle' = h
                      /\ opened' = TRUE
                      /\ nat_handle' = h
                      /\ nat_open' = TRUE
    /\ UNCHANGED <<exists, system_type, conn, port, skt_server, skt_client,
                   n_listen, n_accept, subscribed, errvars, decvars,
                   regvars>>

\* with device: entry -- __enter__ returns self
Device_enter ==
    /\ exists
    /\ Len(blocks) < MaxDepth
    /\ op' = [Op("__enter__") EXCEPT !.was_opened = opened]
    /\ calls' = <<>>
    /\ exc' = NoExc
    /\ blocks' = Append(blocks, "with")
    /\ UNCHANGED <<exists, handle, opened, system_type, conn, port,
                   skt_server, skt_client, nat_handle, nat_open, n_listen,
                   n_accept, subscribed, errvars, decvars, regvars>>

\* with device: exit -- __exit__ closes the Device if it is opened and
\* returns None, so that the exception of the body is raised again
Device_exit ==
    /\ exists
    /\ blocks # <<>> /\ Innermost = "with"
    /\ blocks' = Left
    /\ \E body \in BodyOutcomes :
         IF opened
         THEN \E res \in Statuses :
              LET chk == api_errcheck(res, "DeinitSystem") IN
              /\ op' = [Op("__exit__") EXCEPT !.res = res,
                                              !.was_opened = opened,
                                              !.body = body]
              /\ calls' = <<Native("DeinitSystem", handle)>>
              /\ exc' = IF chk.raised THEN chk.exc ELSE body
              /\ IF chk.raised
                 THEN UNCHANGED <<opened, nat_open>>
                 ELSE /\ opened' = FALSE
                      /\ nat_open' = FALSE
         ELSE /\ op' = [Op("__exit__") EXCEPT !.was_opened = opened,
                                              !.body = body]
              /\ calls' = <<>>
              /\ exc' = body
              /\ UNCHANGED <<opened, nat_open>>
    /\ UNCHANGED <<exists, handle, system_type, conn, port, skt_server,
                   skt_client, nat_handle, n_listen, n_accept, subscribed,
                   errvars, decvars, regvars>>

(***************************************************************************)
(* System properties: Device.get_sys_prop_info, get_sys_prop, set_sys_prop *)
(***************************************************************************)
\* SysPropType
STR == 0
REAL == 1
PROP_BOOLEAN == 6
SOCKET == 1000
SysPropType == (STR .. PROP_BOOLEAN) \cup {SOCKET}

\* the types GetSysPropInfo answers with (SOCKET is never answered)
SysPropTypeReplies == STR .. PROP_BOOLEAN

PropNames == {"ModelName", "EventDataSocket"}

\* the kinds of Python value a caller passes to a set method
ValueKinds == {"float", "int", "str"}

SysPropCall(fn, h, name) == [Native(fn, h) EXCEPT !.name = name]

\* What a method body did: the calls it issued, the exception it left with,
\* and what the claims read of its result: the discovered type, the kind of
\* the value and, for a list, the number of its values.
Done(cs, e) ==
    [calls |-> cs, exc |-> e, type |-> None, kind |-> "", n |-> None]

\* get_sys_prop_info: one GetSysPropInfo call; type is the answered type
get_sys_prop_info(h, name, res, ptype) ==
    LET chk == api_errcheck(res, "GetSysPropInfo")
        c == SysPropCall("GetSysPropInfo", h, name)
    IN  IF chk.raised THEN Done(<<c>>, chk.exc)
        ELSE [Done(<<c>>, NoExc) EXCEPT !.type = ptype]

\* _PROP_TYPE_GET_ARG: the kind of value each type decodes to
PROP_TYPE_GET_ARG(t) ==
    IF t = STR THEN "str"
    ELSE IF t = REAL THEN "float"
    ELSE IF t = PROP_BOOLEAN THEN "bool"
    ELSE "int"

\* A mutant: the type is queried first, and nothing is read when that fails.
get_sys_prop_type_first(h, sys, name, res, res_info, ptype) ==
    LET info == get_sys_prop_info(h, name, res_info, ptype)
        chk == api_errcheck(res, "GetSysProp")
        c == SysPropCall("GetSysProp", h, name)
    IN  IF info.exc # NoExc THEN info
        ELSE IF chk.raised THEN Done(info.calls \o <<c>>, chk.exc)
        ELSE [Done(info.calls \o <<c>>, NoExc) EXCEPT
                 !.type = info.type, !.kind = PROP_TYPE_GET_ARG(info.type)]

\* get_sys_prop: the value is read first, then its type is queried (for
\* R6060's EventDataSocket the type is fixed to SOCKET), then it is decoded.
get_sys_prop(h, sys, name, res, res_info, ptype) ==
    LET chk == api_errcheck(res, "GetSysProp")
        c == SysPropCall("GetSysProp", h, name)
    IN  IF chk.raised THEN Done(<<c>>, chk.exc)
        ELSE IF sys = R6060 /\ name = "EventDataSocket"
        THEN [Done(<<c>>, NoExc) EXCEPT
                 !.type = SOCKET, !.kind = PROP_TYPE_GET_ARG(SOCKET)]
        ELSE LET info == get_sys_prop_info(h, name, res_info, ptype) IN
             IF info.exc # NoExc THEN Done(<<c>> \o info.calls, info.exc)
             ELSE [Done(<<c>> \o info.calls, NoExc) EXCEPT
                      !.type = info.type,
                      !.kind = PROP_TYPE_GET_ARG(info.type)]

\* _PROP_TYPE_SET_ARG: the exception the conversion of a value of kind vkind
\* raises ("none": it converts).  str.encode exists on str only; the ctypes
\* constructors refuse a str, and the integer ones refuse a float.
PROP_TYPE_SET_ARG(t, vkind) ==
    IF t = STR THEN (IF vkind = "str" THEN "none" ELSE "AttributeError")
    ELSE IF t = REAL THEN (IF vkind = "str" THEN "TypeError" ELSE "none")
    ELSE IF vkind = "int" THEN "none" ELSE "TypeError"

set_sys_prop(h, name, vkind, res_info, ptype, res) ==
    LET info == get_sys_prop_info(h, name, res_info, ptype)
        conv == PROP_TYPE_SET_ARG(info.type, vkind)
        chk == api_errcheck(res, "SetSysProp")
        c == SysPropCall("SetSysProp", h, name)
    IN  IF info.exc # NoExc THEN info
        ELSE IF conv # "none"
        THEN [Done(info.calls, Raise(conv)) EXCEPT !.type = info.type]
        ELSE [Done(info.calls \o <<c>>, chk.exc) EXCEPT !.type = info.type]

(***************************************************************************)
(* Library-owned buffers: _Lib.af                                          *)
(***************************************************************************)
FreeCall(ptr) == [Call0 EXCEPT !.fn = "Free", !.name = ptr]

\* A mutant: no try/finally, the buffer is freed on normal exit only.
af_no_finally(ptr, body, free_res) ==
    IF body.exc # NoExc THEN body
    ELSE [body EXCEPT !.calls = @ \o <<FreeCall(ptr)>>,
                      !.exc = api_errcheck(free_res, "Free").exc]

\* with lib.af(T) as ptr: body -- whatever the body did, Free(ptr) is called
\* on exit; an Error raised by Free itself replaces the body's exception.
af(ptr, body, free_res) ==
    LET chk == api_errcheck(free_res, "Free") IN
    [body EXCEPT !.calls = @ \o <<FreeCall(ptr)>>,
                 !.exc = IF chk.raised THEN chk.exc ELSE @]

(***************************************************************************)
(* Board and channel parameters: Device.__get_param_prop, __get_param,     *)
(* __set_param                                                             *)
(***************************************************************************)
\* ParamType
NUMERIC == 0
ONOFF == 1
PARAM_STRING == 5
ENUM == 6
CMD == 7
ParamType == NUMERIC .. CMD

ParamNames == {"VSet"}

\* the index lists (boards, or channels of a board) of the model
IdxLists == {<<>>, <<0>>, <<1, 0>>}

\* What the native layer answers one __get_param_prop with: the parameter's
\* type, the sub-attribute queries that fail, and the status of Free.  Only
\* the answers the method reads are told apart: a query that is not issued
\* does not fail, and the type answered to a failed Type query is NUMERIC.
Env(ptype, fails, free_res) ==
    [ptype |-> ptype, fails |-> fails, free_res |-> free_res]

\* __get_param and __set_param read the type only: of the answers that give
\* them the same calls and the same type, one is kept.
TypeEnv ==
    {Env(NUMERIC, {"Type"}, OK), Env(ENUM, {"Minval"}, OK)}
    \cup {Env(t, {}, OK) : t \in ParamType \ {ENUM}}
    \cup {Env(ENUM, f, r) : f \in {{}, {"Enum"}}, r \in Statuses}

ParamPropCall(h, slot, name, channel, prop_name) ==
    [Native(IF channel = None THEN "GetBdParamProp" ELSE "GetChParamProp", h)
        EXCEPT !.slot = slot, !.name = name, !.prop = prop_name,
               !.idx = IF channel = None THEN <<>> ELSE <<channel>>]

\* ParamProp: type is the ParamType or None; every other field is "" (None)
\* or the name of the sub-attribute whose answer it holds.
ParamProp(param_type, param_mode) ==
    [type |-> param_type, mode |-> param_mode, minval |-> "", maxval |-> "",
     unit |-> "", exp |-> "", onstate |-> "", offstate |-> "", enum |-> ""]

\* _get: the answer, or None when the query raised Error
get_attr(prop_name, e) == IF prop_name \in e.fails THEN "" ELSE prop_name

PropDone(cs, ex, prop) == [calls |-> cs, exc |-> ex, prop |-> prop]

\* A mutant: the answer to 'Exp' is assigned to the exp field.
get_param_prop_exp(h, slot, name, channel, e) ==
    LET q(prop_name) == ParamPropCall(h, slot, name, channel, prop_name)
        param_type == IF "Type" \in e.fails THEN None ELSE e.ptype
        res == ParamProp(param_type, get_attr("Mode", e))
        head == <<q("Type"), q("Mode")>>
    IN  IF param_type = NUMERIC
        THEN PropDone(head \o <<q("Minval"), q("Maxval"), q("Unit"), q("Exp")>>,
                      NoExc,
                      [res EXCEPT !.minval = get_attr("Minval", e),
                                  !.exp = get_attr("Exp", e),
                                  !.maxval = get_attr("Maxval", e),
                                  !.unit = get_attr("Unit", e)])
        ELSE IF param_type = ONOFF
        THEN PropDone(head \o <<q("Onstate"), q("Offstate")>>, NoExc,
                      [res EXCEPT !.onstate = get_attr("Onstate", e),
                                  !.offstate = get_attr("Offstate", e)])
        ELSE IF param_type = ENUM
        THEN LET r2 == [res EXCEPT !.minval = get_attr("Minval", e),
                                   !.maxval = get_attr("Maxval", e)]
                 cs2 == head \o <<q("Minval"), q("Maxval")>>
             IN  IF r2.minval # "" /\ r2.maxval # ""
                 THEN af("g_value_str_array",
                         IF get_attr("Enum", e) # ""
                         THEN PropDone(cs2 \o <<q("Enum")>>, NoExc,
                                       [r2 EXCEPT !.enum = "Enum"])
                         ELSE \* res.enum = enum with enum never assigned
                              PropDone(cs2 \o <<q("Enum")>>,
                                       Raise("UnboundLocalError"), r2),
                         e.free_res)
                 ELSE PropDone(cs2, NoExc, r2)
        ELSE PropDone(head, NoExc, res)

get_param_prop(h, slot, name, channel, e) ==
    LET q(prop_name) == ParamPropCall(h, slot, name, channel, prop_name)
        param_type == IF "Type" \in e.fails THEN None ELSE e.ptype
        res == ParamProp(param_type, get_attr("Mode", e))
        head == <<q("Type"), q("Mode")>>
    IN  IF param_type = NUMERIC
        THEN PropDone(head \o <<q("Minval"), q("Maxval"), q("Unit"), q("Exp")>>,
                      NoExc,
                      [res EXCEPT !.minval = get_attr("Exp", e),
                                  !.maxval = get_attr("Maxval", e),
                                  !.unit = get_attr("Unit", e)])
        ELSE IF param_type = ONOFF
        THEN PropDone(head \o <<q("Onstate"), q("Offstate")>>, NoExc,
                      [res EXCEPT !.onstate = get_attr("Onstate", e),
                                  !.offstate = get_attr("Offstate", e)])
        ELSE IF param_type = ENUM
        THEN LET r2 == [res EXCEPT !.minval = get_attr("Minval", e),
                                   !.maxval = get_attr("Maxval", e)]
                 cs2 == head \o <<q("Minval"), q("Maxval")>>
             IN  IF r2.minval # "" /\ r2.maxval # ""
                 THEN af("g_value_str_array",
                         IF get_attr("Enum", e) # ""
                         THEN PropDone(cs2 \o <<q("Enum")>>, NoExc,
                                       [r2 EXCEPT !.enum = "Enum"])
                         ELSE \* res.enum = enum with enum never assigned
                              PropDone(cs2 \o <<q("Enum")>>,
                                       Raise("UnboundLocalError"), r2),
                         e.free_res)
                 ELSE PropDone(cs2, NoExc, r2)
        ELSE PropDone(head, NoExc, res)

ParamCall(fn, h, slot, name, index_list) ==
    [Native(fn, h) EXCEPT !.slot = slot, !.name = name, !.idx = index_list,
                          !.n = Len(index_list)]

\* the type query of __get_param and __set_param, at the first index
first_param_prop(h, index_list, name, slot, e) ==
    IF slot = None
    THEN get_param_prop(h, index_list[1], name, None, e)
    ELSE get_param_prop(h, slot, name, index_list[1], e)

\* _PARAM_TYPE_ARG and the decoding of __get_param: the kind of the values
PARAM_TYPE_ARG(t) ==
    IF t = NUMERIC THEN "float" ELSE IF t = PARAM_STRING THEN "str" ELSE "int"

\* ct.string_at(ct.addressof(p.contents) + offset).decode()
string_at_offset(p, offset) ==
    IF p.null THEN [exc |-> "ValueError", s |-> <<>>]
    ELSE LET d == decode(string_at(p.mem, offset)) IN
         IF d.ok THEN [exc |-> "none", s |-> d.s]
         ELSE [exc |-> "UnicodeDecodeError", s |-> <<>>]

\* the loops over a NUL-separated list: offset += len(name) + 1, where name
\* is the decoded str
RECURSIVE string_list(_, _, _, _)
string_list(p, offset, k, acc) ==
    IF k <= 0 \/ acc.exc # "none" THEN acc
    ELSE LET v == string_at_offset(p, offset) IN
         string_list(p, offset + Len(v.s) + 1, k - 1,
                     IF v.exc # "none" THEN [acc EXCEPT !.exc = v.exc]
                     ELSE [acc EXCEPT !.out = Append(@, v.s)])

NoneDecoded == [out |-> <<>>, exc |-> "none"]

\* l_data: what the native layer left in the buffer of a STRING parameter
get_param(h, index_list, name, slot, e, res, l_data) ==
    IF index_list = <<>> THEN Done(<<>>, Raise("IndexError"))
    ELSE LET pp == first_param_prop(h, index_list, name, slot, e)
             c == ParamCall(IF slot = None THEN "GetBdParam" ELSE "GetChParam",
                            h, slot, name, index_list)
             chk == api_errcheck(res, c.fn)
             n_indexes == Len(index_list)
             strs == string_list(l_data, 0, n_indexes, NoneDecoded)
         IN  IF pp.exc # NoExc THEN Done(pp.calls, pp.exc)
             ELSE IF pp.prop.type = None THEN Done(pp.calls, Raise("KeyError"))
             ELSE IF chk.raised
             THEN [Done(pp.calls \o <<c>>, chk.exc) EXCEPT
                      !.type = pp.prop.type]
             ELSE IF pp.prop.type = PARAM_STRING
             THEN IF strs.exc # "none"
                  THEN [Done(pp.calls \o <<c>>, Raise(strs.exc)) EXCEPT
                           !.type = pp.prop.type]
                  ELSE [Done(pp.calls \o <<c>>, NoExc) EXCEPT
                           !.type = pp.prop.type,
                           !.kind = PARAM_TYPE_ARG(pp.prop.type),
                           !.n = Len(strs.out)]
             ELSE \* list(l_data), an array of n_indexes elements
                  [Done(pp.calls \o <<c>>, NoExc) EXCEPT
                      !.type = pp.prop.type,
                      !.kind = PARAM_TYPE_ARG(pp.prop.type),
                      !.n = n_indexes]

\* A mutant: the value's shape is not checked against the type.
value_accepted_any(param_type, vkind) == TRUE

\* the isinstance assertions of __set_param
value_accepted(param_type, vkind) ==
    IF param_type = NUMERIC THEN vkind \in {"int", "float"}
    ELSE IF param_type = PARAM_STRING THEN vkind = "str"
    ELSE vkind = "int"

\* __set_param: the type is looked up at the first index, the value is
\* checked and encoded (ct.c_float, bytes or ct.c_int), then the native set
\* is called.  Its last parameter is bound as ct.c_void_p, which takes bytes
\* but no c_float or c_int instance: for those ctypes raises ArgumentError
\* while it converts the arguments and the native function is not entered.
set_param(h, index_list, name, vkind, slot, e, res) ==
    IF index_list = <<>> THEN Done(<<>>, Raise("IndexError"))
    ELSE LET pp == first_param_prop(h, index_list, name, slot, e)
             c == ParamCall(IF slot = None THEN "SetBdParam" ELSE "SetChParam",
                            h, slot, name, index_list)
             chk == api_errcheck(res, c.fn)
             l_data == IF pp.prop.type = NUMERIC THEN "c_float"
                       ELSE IF pp.prop.type = PARAM_STRING THEN "bytes"
                       ELSE "c_int"
         IN  IF pp.exc # NoExc THEN Done(pp.calls, pp.exc)
             ELSE IF ~value_accepted(pp.prop.type, vkind)
             THEN [Done(pp.calls, Raise("AssertionError")) EXCEPT
                      !.type = pp.prop.type]
             ELSE IF l_data # "bytes"
             THEN [Done(pp.calls, Raise("ArgumentError")) EXCEPT
                      !.type = pp.prop.type]
             ELSE [Done(pp.calls \o <<c>>, chk.exc) EXCEPT
                      !.type = pp.prop.type]

(***************************************************************************)
(* The get and set methods of Device.  None of them reads or writes a      *)
(* field of the Device other than handle and system_type.                  *)
(***************************************************************************)
\* What the native layer answers a system property method with: the status
\* of the value call, the status of GetSysPropInfo and, when that is OK, the
\* type.
SysPropEnv ==
    {[res |-> r, res_info |-> OK, ptype |-> t] :
        r \in Statuses, t \in SysPropTypeReplies}
    \cup {[res |-> r, res_info |-> SYSERR, ptype |-> STR] : r \in Statuses}

Returned(o, r) ==
    /\ op' = o
    /\ calls' = r.calls
    /\ exc' = r.exc
    /\ UNCHANGED <<exists, handle, opened, system_type, conn, port,
                   skt_server, skt_client, nat_handle, nat_open, n_listen,
                   n_accept, subscribed, errvars, decvars,
                   regvars, blocks>>

Device_get_sys_prop ==
    /\ exists
    /\ \E name \in PropNames, a \in SysPropEnv :
         LET res == a.res
             res_info == a.res_info
             ptype == a.ptype
             r == get_sys_prop(handle, system_type, name, res, res_info,
                               ptype)
         IN  Returned([Op("get_sys_prop") EXCEPT
                          !.pname = name, !.ptype = r.type, !.res = res], r)

Device_set_sys_prop ==
    /\ exists
    /\ \E name \in PropNames, vkind \in ValueKinds, a \in SysPropEnv :
         LET res == a.res
             res_info == a.res_info
             ptype == a.ptype
             r == set_sys_prop(handle, name, vkind, res_info, ptype, res)
         IN  Returned([Op("set_sys_prop") EXCEPT
                          !.pname = name, !.vkind = vkind, !.ptype = r.type,
                          !.res = res], r)

\* the slot of the channel-scope methods
Slots == {0}

ParamOp(opname, name, vkind, slot, index_list, r, res) ==
    [Op(opname) EXCEPT !.pname = name, !.vkind = vkind, !.slot = slot,
                       !.idx = index_list, !.n = Len(index_list),
                       !.ptype = r.type, !.res = res, !.n_values = r.n]

\* The answers after which __get_param and __set_param can reach the value
\* call: the type is known and the type query raised nothing.
ReachEnv ==
    {Env(t, {}, OK) : t \in ParamType} \cup {Env(ENUM, {"Minval"}, OK)}

\* data: the buffer of a get, zero bytes as create_string_buffer leaves it
ParamInput(index_list, e, res) ==
    [idx |-> index_list, e |-> e, res |-> res,
     data |-> PtrTo([i \in 1 .. Len(index_list) |-> NUL])]

\* The inputs of a board or channel parameter method: the index list, the
\* answers to the type query and the status of the value call.  The status
\* of a value call that cannot be reached is not told apart, and neither are
\* the answers to a type query that the empty list never gets to.
ParamInputs ==
    {ParamInput(<<>>, Env(NUMERIC, {}, OK), OK)}
    \cup {ParamInput(i, e, OK) : i \in IdxLists \ {<<>>}, e \in TypeEnv}
    \cup {ParamInput(i, e, SYSERR) : i \in IdxLists \ {<<>>}, e \in ReachEnv}

\* The inputs of a get: those above and, for a STRING parameter, a buffer
\* the native layer filled with one name per index, and one with bytes that
\* are not UTF-8.
GetInputs ==
    ParamInputs
    \cup {[ParamInput(i, Env(PARAM_STRING, {}, OK), OK) EXCEPT !.data = d] :
             i \in IdxLists \ {<<>>},
             d \in {PtrTo(nul_separated([j \in 1 .. MaxBoards |->
                                           <<233>> \o [m \in 1 .. j |-> 97]])),
                    PtrTo(<<255, NUL>>)}}

Device_get_bd_param ==
    /\ exists
    /\ \E name \in ParamNames, a \in GetInputs :
         LET r == get_param(handle, a.idx, name, None, a.e, a.res, a.data)
         IN  Returned(ParamOp("get_bd_param", name, "", None, a.idx, r,
                              a.res), r)

Device_set_bd_param ==
    /\ exists
    /\ \E name \in ParamNames, vkind \in ValueKinds, a \in ParamInputs :
         LET r == set_param(handle, a.idx, name, vkind, None, a.e, a.res)
         IN  Returned(ParamOp("set_bd_param", name, vkind, None, a.idx, r,
                              a.res), r)

Device_get_ch_param ==
    /\ exists
    /\ \E slot \in Slots, name \in ParamNames, a \in GetInputs :
         LET r == get_param(handle, a.idx, name, slot, a.e, a.res, a.data)
         IN  Returned(ParamOp("get_ch_param", name, "", slot, a.idx, r,
                              a.res), r)

Device_set_ch_param ==
    /\ exists
    /\ \E slot \in Slots, name \in ParamNames, vkind \in ValueKinds,
          a \in ParamInputs :
         LET r == set_param(handle, a.idx, name, vkind, slot, a.e, a.res)
         IN  Returned(ParamOp("set_ch_param", name, vkind, slot, a.idx, r,
                              a.res), r)

(***************************************************************************)
(* The methods that read a library-owned buffer: get_crate_map,            *)
(* get_sys_prop_list, test_bd_presence, get_exec_comm_list                 *)
(***************************************************************************)
\* with a, b, ... as ...: body -- the managers are entered left to right and
\* left right to left, each Free with its own status.
RECURSIVE af_nested(_, _, _)
af_nested(ptrs, body, free_res) ==
    IF ptrs = <<>> THEN body
    ELSE af(Head(ptrs), af_nested(Tail(ptrs), body, Tail(free_res)),
            Head(free_res))

RECURSIVE crate_map_loop(_, _, _, _, _, _)
crate_map_loop(l_ml, l_dl, ml_offset, dl_offset, k, acc) ==
    IF k <= 0 \/ acc.exc # "none" THEN acc
    ELSE LET model == string_at_offset(l_ml, ml_offset)
             description == string_at_offset(l_dl, dl_offset)
         IN  IF model.exc # "none" THEN [acc EXCEPT !.exc = model.exc]
             ELSE IF description.exc # "none"
             THEN [acc EXCEPT !.exc = description.exc]
             ELSE crate_map_loop(l_ml, l_dl, ml_offset + Len(model.s) + 1,
                                 dl_offset + Len(description.s) + 1, k - 1,
                                 [acc EXCEPT
                                     !.out = Append(@, <<model.s,
                                                         description.s>>)])

\* the body of a with block: the native call, then the decoding
Body(c, res, dec) ==
    LET chk == api_errcheck(res, c.fn) IN
    IF chk.raised THEN Done(<<c>>, chk.exc)
    ELSE IF dec.exc # "none" THEN Done(<<c>>, Raise(dec.exc))
    ELSE Done(<<c>>, NoExc)

CrateMapBuffers ==
    <<"g_nr_of_ch_list", "g_model_list", "g_description_list",
      "g_ser_num_list", "g_fmw_rel_min_list", "g_fmw_rel_max_list">>

get_crate_map(h, a, free_res) ==
    af_nested(CrateMapBuffers,
              Body(Native("GetCrateMap", h), a.res,
                   crate_map_loop(a.ml, a.dl, 0, 0, a.n, NoneDecoded)),
              free_res)

get_sys_prop_list(h, a, free_res) ==
    af_nested(<<"g_prop_name_list">>,
              Body(Native("GetSysPropList", h), a.res,
                   string_list(a.ml, 0, a.n, NoneDecoded)),
              free_res)

test_bd_presence(h, slot, a, free_res) ==
    af_nested(<<"g_model", "g_description">>,
              Body([Native("TestBdPresence", h) EXCEPT !.slot = slot], a.res,
                   crate_map_loop(a.ml, a.dl, 0, 0, 1, NoneDecoded)),
              free_res)

get_exec_comm_list(h, a, free_res) ==
    af_nested(<<"g_comm_name_list">>,
              Body(Native("GetExecCommList", h), a.res,
                   string_list(a.ml, 0, a.n, NoneDecoded)),
              free_res)

\* The buffers the native layer hands back for a list of k names: none
\* (the pointer stays NULL), k encoded names, or bytes that are not UTF-8.
BoardName(i) == <<233>> \o [j \in 1 .. i |-> 97]

BoardNames(k) == [i \in 1 .. k |-> BoardName(i)]

NotUtf8 == <<255, NUL>>

BuffersFor(k) == {NullPtr, PtrTo(nul_separated(BoardNames(k))), PtrTo(NotUtf8)}

BufReply(res, n, ml, dl) == [res |-> res, n |-> n, ml |-> ml, dl |-> dl]

\* What the native layer answers a list query with: a failure, an empty
\* list, or n names in one buffer.
ListReplies ==
    {BufReply(SYSERR, 0, NullPtr, NullPtr), BufReply(OK, 0, NullPtr, NullPtr)}
    \cup UNION {{BufReply(OK, k, p, NullPtr) : p \in BuffersFor(k)} :
                   k \in 1 .. MaxBoards}

\* ... and a query with a model buffer and a description buffer.
PairReplies(counts) ==
    {BufReply(SYSERR, 0, NullPtr, NullPtr)}
    \cup UNION {{BufReply(OK, k, p, q) :
                    p \in BuffersFor(k), q \in BuffersFor(k)} : k \in counts}

CrateReplies ==
    {BufReply(OK, 0, NullPtr, NullPtr)} \cup PairReplies(1 .. MaxBoards)

\* the statuses of the Free calls of k buffers, in the order of the buffers
FreeReplies(k) == [1 .. k -> Statuses]

BufOp(opname, a) == [Op(opname) EXCEPT !.n = a.n, !.res = a.res]

Device_get_crate_map ==
    /\ exists
    /\ \E a \in CrateReplies, free_res \in FreeReplies(6) :
         Returned(BufOp("get_crate_map", a),
                  get_crate_map(handle, a, free_res))

Device_get_sys_prop_list ==
    /\ exists
    /\ \E a \in ListReplies, free_res \in FreeReplies(1) :
         Returned(BufOp("get_sys_prop_list", a),
                  get_sys_prop_list(handle, a, free_res))

Device_test_bd_presence ==
    /\ exists
    /\ \E slot \in Slots, a \in PairReplies({1}),
          free_res \in FreeReplies(2) :
         Returned([BufOp("test_bd_presence", a) EXCEPT !.slot = slot],
                  test_bd_presence(handle, slot, a, free_res))

Device_get_exec_comm_list ==
    /\ exists
    /\ \E a \in ListReplies, free_res \in FreeReplies(1) :
         Returned(BufOp("get_exec_comm_list", a),
                  get_exec_comm_list(handle, a, free_res))

\* exec_comm calls lib.get_exec_comm_list, the function bound to
\* GetExecCommList with three argument types, with two arguments: ctypes
\* raises TypeError on the count and the native function is not entered.
exec_comm(h, name) ==
    LET fn == "GetExecCommList"
        argtypes == <<"c_int", "c_ushort_p", "c_char_p_p">>
        args == <<h, name>>
    IN  IF Len(args) < Len(argtypes) THEN Done(<<>>, Raise("TypeError"))
        ELSE Done(<<SysPropCall(fn, h, name)>>, NoExc)

Device_exec_comm ==
    /\ exists
    /\ \E name \in {"Kill", "ClearAlarm"} :
         Returned([Op("exec_comm") EXCEPT !.pname = name],
                  exec_comm(handle, name))

(***************************************************************************)
(* Event subscription: __init_events_server, __init_events_client and the  *)
(* subscribe methods.  A socket field holds 0 for None, otherwise the      *)
(* number of the socket among those of its kind the Device obtained.  The  *)
(* operating system grants every socket operation.                         *)
(***************************************************************************)
SocketCall(fn, p) == [Call0 EXCEPT !.fn = fn, !.port = p]

Ensured(d, cs, e) == [d |-> d, calls |-> cs, exc |-> e]

EVENT_PORT_BASE == 10001

\* A mutant: the listening socket is opened whatever the system type.
init_events_server_any_system(d, h, sys) ==
    IF d.skt_server # 0 THEN Ensured(d, <<>>, NoExc)
    ELSE LET p == EVENT_PORT_BASE + h IN
         Ensured([d EXCEPT !.port = p, !.skt_server = d.n_listen + 1,
                           !.n_listen = d.n_listen + 1],
                 <<SocketCall("bind", p), SocketCall("listen", p)>>, NoExc)

\* A mutant: a listening socket is opened on every call.
init_events_server_again(d, h, sys) ==
    IF sys = R6060 THEN Ensured(d, <<>>, NoExc)
    ELSE LET p == EVENT_PORT_BASE + h IN
         Ensured([d EXCEPT !.port = p, !.skt_server = d.n_listen + 1,
                           !.n_listen = d.n_listen + 1],
                 <<SocketCall("bind", p), SocketCall("listen", p)>>, NoExc)

init_events_server(d, h, sys) ==
    IF d.skt_server # 0 THEN Ensured(d, <<>>, NoExc)
    ELSE IF sys = R6060 THEN Ensured(d, <<>>, NoExc)
    ELSE LET p == EVENT_PORT_BASE + h IN
         Ensured([d EXCEPT !.port = p, !.skt_server = d.n_listen + 1,
                           !.n_listen = d.n_listen + 1],
                 <<SocketCall("bind", p), SocketCall("listen", p)>>, NoExc)

\* res_skt: the status of R6060's read of 'EventDataSocket'
init_events_client(d, h, sys, res_skt) ==
    IF d.skt_client # 0 THEN Ensured(d, <<>>, NoExc)
    ELSE IF sys = R6060
    THEN LET lib_socket == get_sys_prop(h, sys, "EventDataSocket", res_skt,
                                        OK, STR)
         IN  IF lib_socket.exc # NoExc
             THEN Ensured(d, lib_socket.calls, lib_socket.exc)
             ELSE Ensured([d EXCEPT !.port = 0,
                                    !.skt_client = d.n_accept + 1,
                                    !.n_accept = d.n_accept + 1],
                          lib_socket.calls \o <<SocketCall("fromfd", 0)>>,
                          NoExc)
    ELSE IF d.skt_server = 0 THEN Ensured(d, <<>>, Raise("AssertionError"))
    ELSE Ensured([d EXCEPT !.skt_client = d.n_accept + 1,
                           !.n_accept = d.n_accept + 1],
                 <<SocketCall("accept", d.port)>>, NoExc)

\* ':'.join(param_list)
RECURSIVE join(_)
join(param_list) ==
    IF param_list = <<>> THEN ""
    ELSE IF Len(param_list) = 1 THEN param_list[1]
    ELSE param_list[1] \o ":" \o join(Tail(param_list))

\* A mutant: the failed parameters are numbered from one.
RECURSIVE failed_params_from_one(_, _)
failed_params_from_one(result_codes, k) ==
    IF result_codes = <<>> THEN <<>>
    ELSE (IF Head(result_codes) # 0 THEN <<k + 1>> ELSE <<>>)
         \o failed_params_from_one(Tail(result_codes), k + 1)

\* [i for i, ec in enumerate(result_codes) if ec], from index k on
RECURSIVE failed_params(_, _)
failed_params(result_codes, k) ==
    IF result_codes = <<>> THEN <<>>
    ELSE (IF Head(result_codes) # 0 THEN <<k>> ELSE <<>>)
         \o failed_params(Tail(result_codes), k + 1)

\* any(result_codes)
any(result_codes) == \E i \in 1 .. Len(result_codes) : result_codes[i] # 0

\* A mutant: the port passed is computed from the handle of the call.
SubscribeCall_current_handle(fn, h, p, slot, channel, param_list) ==
    [Native(fn, h) EXCEPT !.port = EVENT_PORT_BASE + h, !.slot = slot,
                          !.idx = IF channel = None THEN <<>>
                                  ELSE <<channel>>,
                          !.name = join(param_list), !.n = Len(param_list)]

SubscribeCall(fn, h, p, slot, channel, param_list) ==
    [Native(fn, h) EXCEPT !.port = p, !.slot = slot,
                          !.idx = IF channel = None THEN <<>>
                                  ELSE <<channel>>,
                          !.name = join(param_list), !.n = Len(param_list)]

ParamsFailed(method, failed) ==
    [Raise("RuntimeError") EXCEPT !.func = method, !.failed = failed]

\* A mutant: the status of the native subscribe call is not checked.
subscribe_unchecked(method, fn, d, h, sys, slot, channel, param_list, a) ==
    LET server == init_events_server(d, h, sys)
        c == SubscribeCall(fn, h, server.d.port, slot, channel, param_list)
        client == init_events_client(server.d, h, sys, a.res_skt)
        cs == server.calls \o <<c>> \o client.calls
    IN  IF client.exc # NoExc THEN Ensured(client.d, cs, client.exc)
        ELSE IF any(a.codes)
        THEN Ensured(client.d, cs,
                     ParamsFailed(method, failed_params(a.codes, 0)))
        ELSE Ensured(client.d, cs, NoExc)

\* The body the three subscribe methods share: ensure the server, the
\* native call with self.port, ensure the client, then the result codes.
subscribe(method, fn, d, h, sys, slot, channel, param_list, a) ==
    LET server == init_events_server(d, h, sys)
        c == SubscribeCall(fn, h, server.d.port, slot, channel, param_list)
        chk == api_errcheck(a.res, fn)
        client == init_events_client(server.d, h, sys, a.res_skt)
        cs == server.calls \o <<c>> \o client.calls
    IN  IF chk.raised THEN Ensured(server.d, server.calls \o <<c>>, chk.exc)
        ELSE IF client.exc # NoExc THEN Ensured(client.d, cs, client.exc)
        ELSE IF any(a.codes)
        THEN Ensured(client.d, cs,
                     ParamsFailed(method, failed_params(a.codes, 0)))
        ELSE Ensured(client.d, cs, NoExc)

\* the names a subscription asks for
EventParams == <<"VMon", "IMon", "Status", "Pw", "VSet">>

ParamLists == {SubSeq(EventParams, 1, n) : n \in 0 .. MaxParams}

\* one byte per name: 0, or a failure code
ResultCodes(n) == [1 .. n -> {0, 1}]

SubReply(res, codes, res_skt) ==
    [res |-> res, codes |-> codes, res_skt |-> res_skt]

\* What the native layer answers a subscribe of n names with: a failure, or
\* OK and n result codes; and the status of the read of 'EventDataSocket',
\* told apart where it is read.
SubReplies(n, sys, client) ==
    {SubReply(SYSERR, [i \in 1 .. n |-> 0], OK)}
    \cup {SubReply(OK, codes, r) :
             codes \in ResultCodes(n),
             r \in IF sys = R6060 /\ client = 0 THEN Statuses ELSE {OK}}

Subscribed(o, r) ==
    /\ op' = o
    /\ calls' = r.calls
    /\ exc' = r.exc
    /\ port' = r.d.port
    /\ skt_server' = r.d.skt_server
    /\ skt_client' = r.d.skt_client
    /\ n_listen' = r.d.n_listen
    /\ n_accept' = r.d.n_accept
    /\ subscribed' = TRUE
    /\ UNCHANGED <<exists, handle, opened, system_type, conn, nat_handle,
                   nat_open, errvars, decvars,
                   regvars, blocks>>

DeviceSockets == Sockets(port, skt_server, skt_client, n_listen, n_accept)

SubOp(method, slot, channel, param_list, a) ==
    [Op(method) EXCEPT !.pname = join(param_list), !.slot = slot,
                       !.idx = IF channel = None THEN <<>> ELSE <<channel>>,
                       !.n = Len(param_list), !.codes = a.codes,
                       !.res = a.res, !.res_skt = a.res_skt,
                       !.before = DeviceSockets, !.again = subscribed]

Channels == {0}

Device_subscribe_system_params ==
    /\ exists
    /\ \E param_list \in ParamLists :
       \E a \in SubReplies(Len(param_list), system_type, skt_client) :
         Subscribed(SubOp("subscribe_system_params", None, None, param_list,
                          a),
                    subscribe("subscribe_system_params",
                              "SubscribeSystemParams", DeviceSockets, handle,
                              system_type, None, None, param_list, a))

Device_subscribe_board_params ==
    /\ exists
    /\ \E slot \in Slots, param_list \in ParamLists :
       \E a \in SubReplies(Len(param_list), system_type, skt_client) :
         Subscribed(SubOp("subscribe_board_params", slot, None, param_list,
                          a),
                    subscribe("subscribe_board_params",
                              "SubscribeBoardParams", DeviceSockets, handle,
                              system_type, slot, None, param_list, a))

Device_subscribe_channel_params ==
    /\ exists
    /\ \E slot \in Slots, channel \in Channels, param_list \in ParamLists :
       \E a \in SubReplies(Len(param_list), system_type, skt_client) :
         Subscribed(SubOp("subscribe_channel_params", slot, channel,
                          param_list, a),
                    subscribe("subscribe_channel_params",
                              "SubscribeChannelParams", DeviceSockets, handle,
                              system_type, slot, channel, param_list, a))

(***************************************************************************)
(* Device.get_bd_param_prop and Device.get_ch_param_prop                   *)
(***************************************************************************)
\* What the native layer answers a property-shape query with: every type,
\* every set of failing sub-attribute queries among those the type makes the
\* method issue, and for ENUM (the one type that acquires a buffer) every
\* status of Free.
PropEnv ==
    LET Issued(t) ==
            IF t = NUMERIC THEN {"Minval", "Maxval", "Unit", "Exp"}
            ELSE IF t = ONOFF THEN {"Onstate", "Offstate"}
            ELSE IF t = ENUM THEN {"Minval", "Maxval", "Enum"}
            ELSE {}
    IN  {Env(NUMERIC, {"Type"} \cup m, OK) : m \in SUBSET {"Mode"}}
        \cup UNION {{Env(t, f \cup m, r) :
                        f \in SUBSET Issued(t), m \in SUBSET {"Mode"},
                        r \in IF t = ENUM THEN Statuses ELSE {OK}} :
                    t \in ParamType}

Device_get_bd_param_prop ==
    /\ exists
    /\ \E slot \in Slots, name \in ParamNames, e \in PropEnv :
         LET r == get_param_prop(handle, slot, name, None, e) IN
         Returned([Op("get_bd_param_prop")
                      EXCEPT !.pname = name, !.slot = slot,
                             !.ptype = e.ptype, !.fails = e.fails,
                             !.res = e.free_res, !.prop = r.prop], r)

Device_get_ch_param_prop ==
    /\ exists
    /\ \E slot \in Slots, channel \in Channels, name \in ParamNames,
          e \in PropEnv :
         LET r == get_param_prop(handle, slot, name, channel, e) IN
         Returned([Op("get_ch_param_prop")
                      EXCEPT !.pname = name, !.slot = slot,
                             !.idx = <<channel>>, !.ptype = e.ptype,
                             !.fails = e.fails, !.res = e.free_res,
                             !.prop = r.prop], r)

(***************************************************************************)
(* The unsubscribe methods.  They read handle and port and assign no       *)
(* field.                                                                  *)
(***************************************************************************)
\* any(l_result_codes), over the ctypes array itself: each element is a
\* bytes object of length one, which is true whatever the byte.
any_raw(l_result_codes) == Len(l_result_codes) > 0

\* What the native layer answers an unsubscribe of n names with.
UnsubReplies(n) ==
    {SubReply(SYSERR, [i \in 1 .. n |-> 0], OK)}
    \cup {SubReply(OK, codes, OK) : codes \in ResultCodes(n)}

\* The body the three unsubscribe methods share; failed tells whether the
\* method's test of the result codes found a failure.
unsubscribe(method, fn, h, p, slot, channel, param_list, a, failed) ==
    LET c == SubscribeCall(fn, h, p, slot, channel, param_list)
        chk == api_errcheck(a.res, fn)
    IN  IF chk.raised THEN Done(<<c>>, chk.exc)
        ELSE IF failed
        THEN Done(<<c>>, ParamsFailed(method, failed_params(a.codes, 0)))
        ELSE Done(<<c>>, NoExc)

Device_unsubscribe_system_params ==
    /\ exists
    /\ \E param_list \in ParamLists :
       \E a \in UnsubReplies(Len(param_list)) :
         Returned(SubOp("unsubscribe_system_params", None, None, param_list,
                        a),
                  unsubscribe("unsubscribe_system_params",
                              "UnSubscribeSystemParams", handle, port, None,
                              None, param_list, a, any_raw(a.codes)))

Device_unsubscribe_board_params ==
    /\ exists
    /\ \E slot \in Slots, param_list \in ParamLists :
       \E a \in UnsubReplies(Len(param_list)) :
         Returned(SubOp("unsubscribe_board_params", slot, None, param_list,
                        a),
                  unsubscribe("unsubscribe_board_params",
                              "UnSubscribeBoardParams", handle, port, slot,
                              None, param_list, a, any_raw(a.codes)))

Device_unsubscribe_channel_params ==
    /\ exists
    /\ \E slot \in Slots, channel \in Channels, param_list \in ParamLists :
       \E a \in UnsubReplies(Len(param_list)) :
         Returned(SubOp("unsubscribe_channel_params", slot, channel,
                        param_list, a),
                  unsubscribe("unsubscribe_channel_params",
                              "UnSubscribeChannelParams", handle, port, slot,
                              channel, param_list, a, any(a.codes)))

(***************************************************************************)
(* Device.get_event_data.  The union of the event record is read through   *)
(* one of its three members; the model tells which.                        *)
(***************************************************************************)
\* EventType
PARAMETER == 0
ALARM == 1
KEEPALIVE == 2
TRMODE == 3
EventType == PARAMETER .. TRMODE

\* _PROP_TYPE_EVENT_ARG: the member read for each SysPropType it has a key
\* for (it has none for SOCKET)
PROP_TYPE_EVENT_ARG(t) ==
    IF t = STR THEN "StringValue"
    ELSE IF t = REAL THEN "FloatValue"
    ELSE "IntValue"

\* A mutant: a NUMERIC parameter is read as an integer.
PARAM_TYPE_EVENT_ARG_int(t) ==
    IF t = PARAM_STRING THEN "StringValue" ELSE "IntValue"

\* _PARAM_TYPE_EVENT_ARG: the member read for each ParamType
PARAM_TYPE_EVENT_ARG(t) ==
    IF t = NUMERIC THEN "FloatValue"
    ELSE IF t = PARAM_STRING THEN "StringValue"
    ELSE "IntValue"

\* What the native layer answers one get_event_data with: the status of
\* GetEventData, the event record (Type, BoardIndex, ChannelIndex, ItemID),
\* the answers to the lookup that follows (res_info and ptype for a system
\* property, e for a parameter) and the status of Free.  The record of a
\* failed call and the answers to a lookup that is not made are not told
\* apart.
Events ==
    LET Ev(res, t, b, c, res_info, ptype, e, free_res) ==
            [res |-> res, Type |-> t, BoardIndex |-> b, ChannelIndex |-> c,
             ItemID |-> "VSet", res_info |-> res_info, ptype |-> ptype,
             e |-> e, free_res |-> free_res]
        e0 == Env(NUMERIC, {}, OK)
    IN  {Ev(SYSERR, PARAMETER, -1, -1, OK, STR, e0, r) : r \in Statuses}
        \cup {Ev(OK, t, b, c, OK, STR, e0, r) :
                t \in {ALARM, KEEPALIVE, TRMODE + 1}, b \in {-1, 0},
                c \in {-1, 0}, r \in Statuses}
        \cup {Ev(OK, t, -1, c, OK, pt, e0, r) :
                t \in {PARAMETER, TRMODE}, c \in {-1, 0},
                pt \in SysPropTypeReplies, r \in Statuses}
        \cup {Ev(OK, t, -1, c, SYSERR, STR, e0, r) :
                t \in {PARAMETER, TRMODE}, c \in {-1, 0}, r \in Statuses}
        \cup {Ev(OK, t, 0, c, OK, STR, e, r) :
                t \in {PARAMETER, TRMODE}, c \in {-1, 0}, e \in TypeEnv,
                r \in Statuses}

\* get_event_data with self.skt_client = client; a is the native layer's
\* answer.  type is the discovered type and kind the member of the union the
\* value was read from ("default" when the value is left at its default).
get_event_data(h, client, a) ==
    IF client = 0 THEN Done(<<>>, Raise("RuntimeWarning"))
    ELSE
    LET c == [Call0 EXCEPT !.fn = "GetEventData", !.port = client]
        chk == api_errcheck(a.res, "GetEventData")
        info == get_sys_prop_info(h, a.ItemID, a.res_info, a.ptype)
        prop == get_param_prop(h, a.BoardIndex, a.ItemID,
                               IF a.ChannelIndex = -1 THEN None
                               ELSE a.ChannelIndex, a.e)
        body ==
            IF chk.raised THEN Done(<<c>>, chk.exc)
            ELSE IF a.Type \notin EventType
            THEN Done(<<c>>, Raise("ValueError"))
            ELSE IF a.Type \in {KEEPALIVE, ALARM}
            THEN [Done(<<c>>, NoExc) EXCEPT !.kind = "default"]
            ELSE IF a.BoardIndex = -1
            THEN IF info.exc # NoExc THEN Done(<<c>> \o info.calls, info.exc)
                 ELSE IF info.type \notin STR .. PROP_BOOLEAN
                 THEN Done(<<c>> \o info.calls, Raise("KeyError"))
                 ELSE [Done(<<c>> \o info.calls, NoExc)
                          EXCEPT !.type = info.type,
                                 !.kind = PROP_TYPE_EVENT_ARG(info.type)]
            ELSE IF prop.exc # NoExc THEN Done(<<c>> \o prop.calls, prop.exc)
                 ELSE IF prop.prop.type \notin ParamType
                 THEN Done(<<c>> \o prop.calls, Raise("KeyError"))
                 ELSE [Done(<<c>> \o prop.calls, NoExc)
                          EXCEPT !.type = prop.prop.type,
                                 !.kind = PARAM_TYPE_EVENT_ARG(prop.prop.type)]
    IN  af("l_ed", body, a.free_res)

Device_get_event_data ==
    /\ exists
    /\ \E a \in Events :
         LET r == get_event_data(handle, skt_client, a) IN
         Returned([Op("get_event_data")
                      EXCEPT !.res = a.res, !.etype = a.Type,
                             !.slot = a.BoardIndex,
                             !.idx = <<a.ChannelIndex>>, !.pname = a.ItemID,
                             !.ptype = r.type, !.vkind = r.kind], r)

(***************************************************************************)
(* Device.__get_param_info: get_bd_param_info and get_ch_param_info        *)
(***************************************************************************)
MAX_PARAM_NAME == 10

\* A mutant: the names are read twenty bytes apart.
RECURSIVE param_info_loop_20(_, _, _, _)
param_info_loop_20(p, offset, res_size, acc) ==
    LET param_name == string_at_offset(p, offset) IN
    IF param_name.exc # "none" THEN [acc EXCEPT !.exc = param_name.exc]
    ELSE IF Len(param_name.s) = 0
    THEN IF res_size # None /\ res_size # Len(acc.out)
         THEN [acc EXCEPT !.exc = "AssertionError"]
         ELSE acc
    ELSE param_info_loop_20(p, offset + 2 * MAX_PARAM_NAME, res_size,
                            [acc EXCEPT !.out = Append(@, param_name.s)])

\* while True: the name at the offset is decoded; an empty name ends the
\* list (assert res_size == len(res) when a size was returned), any other
\* is appended and the offset advances by MAX_PARAM_NAME.
RECURSIVE param_info_loop(_, _, _, _)
param_info_loop(p, offset, res_size, acc) ==
    LET param_name == string_at_offset(p, offset) IN
    IF param_name.exc # "none" THEN [acc EXCEPT !.exc = param_name.exc]
    ELSE IF Len(param_name.s) = 0
    THEN IF res_size # None /\ res_size # Len(acc.out)
         THEN [acc EXCEPT !.exc = "AssertionError"]
         ELSE acc
    ELSE param_info_loop(p, offset + MAX_PARAM_NAME, res_size,
                         [acc EXCEPT !.out = Append(@, param_name.s)])

\* channel is None in board scope; a.buf is what the native layer left in
\* the buffer and a.size the count it returned in channel scope.
get_param_info(h, slot, channel, a, free_res) ==
    LET c == [Native(IF channel = None THEN "GetBdParamInfo"
                     ELSE "GetChParamInfo", h)
                 EXCEPT !.slot = slot,
                        !.idx = IF channel = None THEN <<>> ELSE <<channel>>]
        res_size == IF channel = None THEN None ELSE a.size
        dec == param_info_loop(a.buf, 0, res_size, NoneDecoded)
        r == af("g_value_str_array", Body(c, a.res, dec), free_res)
    IN  [calls |-> r.calls, exc |-> r.exc,
         out |-> IF r.exc = NoExc THEN dec.out ELSE <<>>]

\* What the native layer answers an enumeration with: a failure, a buffer
\* it never set (no layout: string_size 0), or k names (each shorter than MAX_PARAM_NAME bytes) and the
\* empty name that ends them, in slots of ten or of twenty bytes whose bytes
\* after the NUL are NUL or not, with the count k or another one.
InfoReplies ==
    LET InfoReply(res, buf, strs, string_size, pad, size) ==
            [res |-> res, buf |-> buf, strs |-> strs,
             string_size |-> string_size, pad |-> pad, size |-> size]
    IN  {InfoReply(SYSERR, NullPtr, <<>>, 0, NUL, 0),
         InfoReply(OK, NullPtr, <<>>, 0, NUL, 0)}
        \cup UNION {{InfoReply(OK,
                               PtrTo(fixed_stride_terminated(BoardNames(k),
                                                             s, pad)),
                               BoardNames(k), s, pad, n) :
                        s \in {MAX_PARAM_NAME, 2 * MAX_PARAM_NAME},
                        pad \in {NUL, 97}, n \in {k, k + 1}} :
                       k \in 0 .. MaxParams}

InfoOp(opname, slot, a, r) ==
    [Op(opname) EXCEPT
        !.slot = slot, !.res = a.res, !.out = r.out,
        !.info = [strs |-> a.strs, string_size |-> a.string_size,
                  pad |-> a.pad, size |-> a.size]]

Device_get_bd_param_info ==
    /\ exists
    /\ \E slot \in Slots, a \in InfoReplies, free_res \in Statuses :
         LET r == get_param_info(handle, slot, None, a, free_res) IN
         Returned(InfoOp("get_bd_param_info", slot, a, r), r)

Device_get_ch_param_info ==
    /\ exists
    /\ \E slot \in Slots, channel \in Channels, a \in InfoReplies,
          free_res \in Statuses :
         LET r == get_param_info(handle, slot, channel, a, free_res) IN
         Returned(InfoOp("get_ch_param_info", slot, a, r), r)

(***************************************************************************)
(* The state after the module is imported: no Device yet.                  *)
(***************************************************************************)
DevInit ==
    /\ exists = FALSE
    /\ handle = None
    /\ opened = FALSE
    /\ system_type = None
    /\ conn = NoConn
    /\ port = 0
    /\ skt_server = 0
    /\ skt_client = 0
    /\ op = Op0
    /\ calls = <<>>
    /\ exc = NoExc
    /\ nat_handle = None
    /\ nat_open = FALSE
    /\ n_listen = 0
    /\ n_accept = 0
    /\ subscribed = FALSE
    /\ blocks = <<>>

(***************************************************************************)
(* A bound native function returning, and its post-call check.             *)
(***************************************************************************)
NotCalled == [raised |-> FALSE, ret |-> None, exc |-> NoExc]

\* the statuses a C int result is drawn from: the enumeration and two
\* integers outside it
ErrInputs == ErrorCode \cup {-1, NOTYETIMPLEMENTED + 1}

ErrIdle == e_res = OK /\ e_name = "" /\ e_out = NotCalled

ErrInit == e_res \in ErrInputs /\ e_name \in ApiNames /\ e_out = NotCalled

native_returns ==
    /\ e_out = NotCalled
    /\ e_name # ""
    /\ e_out' = api_errcheck(e_res, e_name)
    /\ UNCHANGED <<e_res, e_name, devvars, decvars, regvars>>

(***************************************************************************)
(* The decoders applied to buffers in their layouts.                       *)
(***************************************************************************)
\* the strs of at most MaxStrLen code points
RECURSIVE StrsOfLen(_)
StrsOfLen(k) ==
    IF k = 0 THEN {<<>>}
    ELSE {Append(t, c) : t \in StrsOfLen(k - 1), c \in Chars}

Strs == UNION {StrsOfLen(k) : k \in 0 .. MaxStrLen}

RECURSIVE StrSeqsOfLen(_)
StrSeqsOfLen(k) ==
    IF k = 0 THEN {<<>>}
    ELSE {Append(t, x) : t \in StrSeqsOfLen(k - 1), x \in Strs}

StrSeqs == UNION {StrSeqsOfLen(k) : k \in 0 .. MaxStrings}

\* a stride longer than every encoded string: two bytes per code point
Stride == 2 * MaxStrLen + 1

DecIdle ==
    /\ c_strs = <<>> /\ c_size = Stride /\ c_pad = NUL /\ c_fn = ""
    /\ c_n = None /\ c_null = FALSE /\ c_res = Dec0

DecInit ==
    /\ c_strs \in StrSeqs
    /\ c_size = Stride
    /\ c_pad \in {NUL, 97}
    /\ c_fn = ""
    /\ c_n = None
    /\ c_null = FALSE
    /\ c_res = Dec0

Decoded(fn, n, null, res) ==
    /\ c_fn = ""
    /\ c_fn' = fn
    /\ c_n' = n
    /\ c_null' = null
    /\ c_res' = res
    /\ UNCHANGED <<c_strs, c_size, c_pad, devvars, errvars, regvars>>

call_str_from_char ==
    Decoded("str_from_char", Len(c_strs), FALSE,
            str_from_char(nul_separated(c_strs), Len(c_strs)))

call_str_from_char_p ==
    \E null \in BOOLEAN, n \in {0, Len(c_strs)} :
        Decoded("str_from_char_p", n, null,
                str_from_char_p(IF null THEN NullPtr
                                ELSE PtrTo(nul_separated(c_strs)), n))

call_str_from_char_array ==
    Decoded("str_from_char_array", None, FALSE,
            str_from_char_array(
                fixed_stride_terminated(c_strs, c_size, c_pad), c_size))

call_str_from_n_char_array ==
    Decoded("str_from_n_char_array", Len(c_strs), FALSE,
            str_from_n_char_array(fixed_stride(c_strs, c_size, c_pad),
                                  c_size, Len(c_strs)))

call_str_from_n_char_array_p ==
    \E null \in BOOLEAN, n \in {0, Len(c_strs)} :
        Decoded("str_from_n_char_array_p", n, null,
                str_from_n_char_array_p(
                    IF null THEN NullPtr
                    ELSE PtrTo(fixed_stride(c_strs, c_size, c_pad)),
                    c_size, n))

\* Registers: nothing was subscripted yet
RegIdle ==
    /\ r_key = [kind |-> "str", at |-> 0, start |-> {}, stop |-> {},
                step |-> {}]
    /\ r_value = [is_seq |-> FALSE, items |-> <<7>>]
    /\ r_multi = FALSE
    /\ r_fn = ""
    /\ r_res = [exc |-> "none", log |-> <<>>]

\* Registers: the keys (an int, a slice with each of start, stop and step
\* given or not, a str), the values (an int, a sequence of 0 to MaxAddr + 1
\* ints) and the two ways a Registers is built
RegInit ==
    LET Opt == {{}} \cup {{x} : x \in 0 .. MaxAddr}
        Steps == {{}} \cup {{x} : x \in -1 .. 2}
    IN  /\ r_key \in
              {[kind |-> "int", at |-> a, start |-> {}, stop |-> {},
                step |-> {}] : a \in 0 .. MaxAddr}
              \cup {[kind |-> "slice", at |-> 0, start |-> b, stop |-> e,
                     step |-> st] : b \in Opt, e \in Opt, st \in Steps}
              \cup {[kind |-> "str", at |-> 0, start |-> {}, stop |-> {},
                     step |-> {}]}
        /\ r_value \in
              {[is_seq |-> FALSE, items |-> <<7>>]}
              \cup {[is_seq |-> TRUE, items |-> [i \in 1 .. n |-> 10 + i]] :
                       n \in 0 .. MaxAddr + 1}
        /\ r_multi \in BOOLEAN
        /\ r_fn = ""
        /\ r_res = [exc |-> "none", log |-> <<>>]

\* registers[key]
call_getitem ==
    /\ r_fn = ""
    /\ r_fn' = "__getitem__"
    /\ r_res' = getitem(r_key, r_multi)
    /\ UNCHANGED <<r_key, r_value, r_multi, devvars, errvars, decvars>>

\* registers[key] = value
call_setitem ==
    /\ r_fn = ""
    /\ r_fn' = "__setitem__"
    /\ r_res' = setitem(r_key, r_value, r_multi)
    /\ UNCHANGED <<r_key, r_value, r_multi, devvars, errvars, decvars>>

Init == DevInit /\ ErrIdle /\ DecIdle /\ RegIdle

Next ==
    \/ open
    \/ connect
    \/ close
    \/ Device_del
    \/ Device_subscribe_system_params
    \/ Device_subscribe_board_params
    \/ Device_subscribe_channel_params
    \/ Device_unsubscribe_system_params
    \/ Device_unsubscribe_board_params
    \/ Device_unsubscribe_channel_params

Spec == Init /\ [][Next]_vars

\* a Device with its get and set methods
ParamNext ==
    \/ open
    \/ connect
    \/ close
    \/ Device_get_sys_prop
    \/ Device_set_sys_prop
    \/ Device_get_bd_param
    \/ Device_set_bd_param
    \/ Device_get_ch_param
    \/ Device_set_ch_param

SpecParam == Init /\ [][ParamNext]_vars

\* the life cycle and the methods that read library-owned buffers
BufNext ==
    \/ open
    \/ connect
    \/ close
    \/ Device_get_crate_map
    \/ Device_get_sys_prop_list
    \/ Device_test_bd_presence
    \/ Device_get_exec_comm_list
    \/ Device_exec_comm

SpecBuf == Init /\ [][BufNext]_vars

\* the life cycle and the with blocks
BlockNext ==
    \/ open
    \/ connect
    \/ close
    \/ Device_del
    \/ device_closed_enter
    \/ device_closed_exit
    \/ Device_enter
    \/ Device_exit

SpecBlock == Init /\ [][BlockNext]_vars

\* the life cycle and the parameter-name enumerations
InfoNext ==
    \/ open
    \/ connect
    \/ close
    \/ Device_get_bd_param_info
    \/ Device_get_ch_param_info

SpecInfo == Init /\ [][InfoNext]_vars

\* the life cycle and the property-shape queries
PropNext ==
    \/ open
    \/ connect
    \/ close
    \/ Device_get_bd_param_prop
    \/ Device_get_ch_param_prop

SpecProp == Init /\ [][PropNext]_vars

\* the life cycle, a subscription and the reading of events
EventNext ==
    \/ open
    \/ connect
    \/ close
    \/ Device_subscribe_system_params
    \/ Device_get_event_data

SpecEvent == Init /\ [][EventNext]_vars

\* the post-call check on every status, for every bound function
ErrNext == native_returns

InitErr == DevInit /\ ErrInit /\ DecIdle /\ RegIdle

SpecErr == InitErr /\ [][ErrNext]_vars

\* the decoders on every buffer within the bounds
DecNext ==
    \/ call_str_from_char
    \/ call_str_from_char_p
    \/ call_str_from_char_array
    \/ call_str_from_n_char_array
    \/ call_str_from_n_char_array_p

InitDec == DevInit /\ ErrIdle /\ DecInit /\ RegIdle

SpecDec == InitDec /\ [][DecNext]_vars

\* Registers subscripted and assigned with every key and value
RegNext ==
    \/ call_getitem
    \/ call_setitem

InitReg == DevInit /\ ErrIdle /\ DecIdle /\ RegInit

SpecReg == InitReg /\ [][RegNext]_vars

(***************************************************************************)
(* Properties.                                                             *)
(***************************************************************************)

\* C1: after any sequence of open, connect and close in which each native
\* InitSystem/DeinitSystem may succeed or fail, opened is True exactly when
\* the most recent successful InitSystem has not been followed by a
\* successful DeinitSystem, and handle is the handle that InitSystem
\* returned; a successful open leaves opened True, and close calls
\* DeinitSystem with the Device's handle and, when that succeeds, leaves
\* opened False.
C1_OpenedTracksNativeSession ==
    exists =>
        /\ opened <=> nat_open
        /\ handle = nat_handle
        /\ (op.name = "open" /\ exc = NoExc) => opened
        /\ op.name = "close" =>
            /\ calls = <<Native("DeinitSystem", handle)>>
            /\ exc = NoExc => ~opened

C1_Witness ==
    /\ exists /\ op.name = "close" /\ exc = NoExc /\ ~opened
    /\ handle = 1 /\ calls[1].fn = "DeinitSystem" /\ calls[1].handle = 1

\* C3: for every bound native entry point and every status of ErrorCode, the
\* post-call check returns the status when it is OK, and otherwise raises an
\* Error whose code is the status and whose func is the native function's
\* name.
C3_ErrcheckMapsStatus ==
    (e_out # NotCalled /\ e_res \in ErrorCode) =>
        IF e_res = OK
        THEN ~e_out.raised /\ e_out.ret = OK /\ e_out.exc = NoExc
        ELSE /\ e_out.raised
             /\ e_out.exc.type = "Error"
             /\ e_out.exc.code = e_res
             /\ e_out.exc.func = "CAENHV_" \o e_name

C3_Witness ==
    /\ e_name = "GetCrateMap" /\ e_res = USERPASSFAILED
    /\ e_out.raised /\ e_out.exc.code = USERPASSFAILED
    /\ e_out.exc.func = "CAENHV_GetCrateMap"

\* The decoder was given the whole buffer: a valid pointer, and the number
\* of strings encoded where it takes a count.
FullDecode == c_fn # "" /\ ~c_null /\ (c_n = None \/ c_n = Len(c_strs))

RoundTrips == c_res.exc = "none" /\ ~c_res.overrun /\ c_res.out = c_strs

NonEmptyStrs == \A i \in 1 .. Len(c_strs) : c_strs[i] # <<>>

\* the strings before the first empty one
RECURSIVE UpToEmpty(_)
UpToEmpty(strs) ==
    IF strs = <<>> \/ Head(strs) = <<>> THEN <<>>
    ELSE <<Head(strs)>> \o UpToEmpty(Tail(strs))

\* C4 as stated: every sequence of strings without embedded NUL, each
\* shorter than the stride, round-trips through every decoder.
C4_RoundTripEverySequence == FullDecode => RoundTrips

\* C4, amended: the round trip holds for str_from_char, str_from_n_char_array
\* and the pointer variants on every sequence, and for str_from_char_array on
\* the sequences of non-empty strings; on any sequence str_from_char_array
\* yields the strings before the first empty one.
C4_RoundTrip ==
    FullDecode =>
        /\ (c_fn # "str_from_char_array" \/ NonEmptyStrs) => RoundTrips
        /\ c_fn = "str_from_char_array" =>
            /\ c_res.exc = "none" /\ ~c_res.overrun
            /\ c_res.out = UpToEmpty(c_strs)

C4_Witness ==
    /\ c_fn = "str_from_n_char_array" /\ c_pad = 97
    /\ c_strs = << <<>>, <<233, 97>> >>
    /\ RoundTrips

\* C5: str_from_char_p and str_from_n_char_array_p with n_strings = 0 do not
\* dereference the pointer, NULL or not, and yield nothing; with
\* n_strings > 0 they yield what the non-pointer decoder yields on the
\* buffer pointed to.
C5_PointerGuard ==
    /\ c_fn \in {"str_from_char_p", "str_from_n_char_array_p"} /\ c_n = 0 =>
        ~c_res.deref /\ c_res.out = <<>> /\ c_res.exc = "none"
    /\ c_fn = "str_from_char_p" /\ c_n > 0 /\ ~c_null =>
        /\ c_res.deref
        /\ c_res.out = str_from_char(nul_separated(c_strs), c_n).out
        /\ c_res.exc = "none"
    /\ c_fn = "str_from_n_char_array_p" /\ c_n > 0 /\ ~c_null =>
        /\ c_res.deref
        /\ c_res.out =
             str_from_n_char_array(fixed_stride(c_strs, c_size, c_pad),
                                   c_size, c_n).out
        /\ c_res.exc = "none"

C5_Witness ==
    /\ c_fn = "str_from_n_char_array_p" /\ c_null /\ c_n = 0
    /\ c_strs # <<>> /\ ~c_res.deref /\ c_res.out = <<>>

GetSetOps ==
    {"get_sys_prop", "set_sys_prop", "get_bd_param", "set_bd_param",
     "get_ch_param", "set_ch_param"}

\* C2: no get or set operation issues a native call on a Device whose
\* opened flag is False, for any sequence of open, close, connect and
\* get/set calls.
C2_NoNativeCallWhenClosed ==
    (exists /\ ~opened /\ op.name \in GetSetOps) => calls = <<>>

SetParamOps == {"set_bd_param", "set_ch_param"}

SetParamFns == {"SetBdParam", "SetChParam"}

ParamPropFns == {"GetBdParamProp", "GetChParamProp"}

\* The value of the last set does not match the type that was discovered: a
\* string where the type is not STRING, anything else where it is, a float
\* where the type is neither NUMERIC nor STRING.
ValueMismatch ==
    /\ op.name \in SetParamOps
    /\ op.ptype \in ParamType
    /\ \/ op.ptype = PARAM_STRING /\ op.vkind \in {"int", "float"}
       \/ op.ptype # PARAM_STRING /\ op.vkind = "str"
       \/ op.ptype \notin {NUMERIC, PARAM_STRING} /\ op.vkind = "float"

\* C7 as stated: a set with a value that does not match the discovered
\* type fails before any native call is issued.
C7_FailsBeforeAnyNativeCall == ValueMismatch => exc # NoExc /\ calls = <<>>

\* C7, amended: a set with a value that does not match the discovered type
\* fails with AssertionError after the type-discovery queries, the first of
\* which asks for 'Type', and before the native set call: the calls issued
\* are property queries (and the Free of the enumeration buffer) only.
C7_FailsBeforeSetCall ==
    ValueMismatch =>
        /\ exc.type = "AssertionError"
        /\ calls # <<>>
        /\ calls[1].fn \in ParamPropFns /\ calls[1].prop = "Type"
        /\ \A i \in 1 .. Len(calls) :
              /\ calls[i].fn \in ParamPropFns \cup {"Free"}
              /\ calls[i].fn \notin SetParamFns

C7_Witness ==
    /\ ValueMismatch /\ op.name = "set_ch_param" /\ op.idx = <<1, 0>>
    /\ op.ptype = NUMERIC /\ op.vkind = "str"
    /\ exc.type = "AssertionError" /\ Len(calls) = 6

ValueFns ==
    {"GetSysProp", "SetSysProp", "GetBdParam", "SetBdParam", "GetChParam",
     "SetChParam"}

IsTypeQuery(c) ==
    \/ c.fn = "GetSysPropInfo"
    \/ c.fn \in ParamPropFns /\ c.prop = "Type"

IsSocketRead ==
    op.name = "get_sys_prop" /\ system_type = R6060
        /\ op.pname = "EventDataSocket"

\* every value call of the last method comes after a type query
TypeQueryFirst ==
    \A j \in 1 .. Len(calls) :
        calls[j].fn \in ValueFns => \E i \in 1 .. j - 1 : IsTypeQuery(calls[i])

NoTypeQuery == \A i \in 1 .. Len(calls) : ~IsTypeQuery(calls[i])

\* C8 as stated: in every get and every set at each of the three scopes the
\* native type query is issued before the native call that reads or writes
\* the value, except for R6060's 'EventDataSocket', for which no type query
\* is made.
C8_TypeQueryBeforeValueCall ==
    op.name \in GetSetOps =>
        IF IsSocketRead THEN NoTypeQuery ELSE TypeQueryFirst

\* C8, amended: in every set at the three scopes and every get at board and
\* channel scope the type query is issued before the value call.
\* get_sys_prop issues the native read first; the type query follows it,
\* only when the read succeeded, and never for R6060's 'EventDataSocket'.
C8_TypeQueryBeforeDecoding ==
    op.name \in GetSetOps =>
        IF op.name # "get_sys_prop" THEN TypeQueryFirst
        ELSE /\ calls # <<>> /\ calls[1].fn = "GetSysProp"
             /\ \A i \in 2 .. Len(calls) : calls[i].fn = "GetSysPropInfo"
             /\ Len(calls) = IF op.res = OK /\ ~IsSocketRead THEN 2 ELSE 1

C8_Witness ==
    /\ op.name = "get_sys_prop" /\ system_type = SY4527 /\ exc = NoExc
    /\ Len(calls) = 2
    /\ calls[1].fn = "GetSysProp" /\ calls[2].fn = "GetSysPropInfo"


\* the buffers each method acquires through lib.af
Acquired ==
    [get_crate_map |-> CrateMapBuffers,
     get_sys_prop_list |-> <<"g_prop_name_list">>,
     test_bd_presence |-> <<"g_model", "g_description">>,
     get_exec_comm_list |-> <<"g_comm_name_list">>]

FreesOf(ptr) ==
    {i \in 1 .. Len(calls) : calls[i].fn = "Free" /\ calls[i].name = ptr}

\* C6: every buffer acquired through lib.af is released by Free exactly
\* once before the method that acquired it returns, whether the method
\* succeeded, the native call raised Error or the decoding raised; this
\* holds for each of the buffers a method acquires together.
C6_EveryBufferFreedOnce ==
    op.name \in DOMAIN Acquired =>
        LET bufs == Acquired[op.name] IN
        /\ \A k \in 1 .. Len(bufs) : Cardinality(FreesOf(bufs[k])) = 1
        /\ Len(calls) = 1 + Len(bufs)
        /\ calls[1].fn # "Free"

C6_Witness ==
    /\ op.name = "get_crate_map" /\ op.res = OK /\ op.n = 2
    /\ exc.type = "UnicodeDecodeError"
    /\ \A k \in 1 .. 6 : Cardinality(FreesOf(CrateMapBuffers[k])) = 1


SubscribeOps ==
    {"subscribe_system_params", "subscribe_board_params",
     "subscribe_channel_params"}

\* the last method was a subscribe whose native call returned OK
SubscribeReturnedOK == op.name \in SubscribeOps /\ op.res = OK

NonZero(codes) == {i \in 1 .. Len(codes) : codes[i] # 0}

\* the error names exactly the 0-based indices of the non-zero codes, in
\* increasing order
NamesFailed(codes) ==
    /\ exc.type = "RuntimeError"
    /\ {exc.failed[k] : k \in 1 .. Len(exc.failed)}
          = {i - 1 : i \in NonZero(codes)}
    /\ \A k \in 1 .. Len(exc.failed) - 1 : exc.failed[k] < exc.failed[k + 1]

\* C9 as stated: when the native subscribe call returns OK, the method
\* raises iff at least one result code is non-zero; the error names exactly
\* the indices of the non-zero codes; after the raise the client socket is
\* set and the listening socket is in place as before.
C9_RaisesIffCodeNonZero ==
    SubscribeReturnedOK =>
        /\ exc # NoExc <=> NonZero(op.codes) # {}
        /\ exc # NoExc =>
            /\ NamesFailed(op.codes)
            /\ skt_client # 0
            /\ skt_server = IF system_type = R6060 THEN 0 ELSE 1

\* R6060's read of 'EventDataSocket', made when there is no client socket
\* yet, failed
SocketReadFailed == op.res_skt # OK

\* C9, amended: as stated whenever the client socket is there or can be
\* had; on R6060, when the read of 'EventDataSocket' that yields the client
\* socket fails, the method raises that Error whatever the result codes, and
\* the client socket stays unset.
C9_RaisesIffCodeNonZeroOrNoSocket ==
    SubscribeReturnedOK =>
        IF SocketReadFailed
        THEN /\ system_type = R6060 /\ op.before.skt_client = 0
             /\ exc.type = "Error" /\ exc.func = "CAENHV_GetSysProp"
             /\ skt_client = 0 /\ skt_server = 0
        ELSE /\ exc # NoExc <=> NonZero(op.codes) # {}
             /\ exc # NoExc =>
                 /\ NamesFailed(op.codes)
                 /\ skt_client # 0
                 /\ skt_server = IF system_type = R6060 THEN 0 ELSE 1

C9_Witness ==
    /\ op.name = "subscribe_board_params" /\ op.res = OK
    /\ op.codes = <<0, 0, 1>> /\ exc.type = "RuntimeError"
    /\ exc.failed = <<2>> /\ skt_client = 1 /\ skt_server = 1


\* the first n names of EventParams with a colon between them
RECURSIVE ColonJoined(_)
ColonJoined(n) ==
    IF n = 0 THEN ""
    ELSE IF n = 1 THEN EventParams[1]
    ELSE ColonJoined(n - 1) \o ":" \o EventParams[n]

SubscribeFn ==
    [subscribe_system_params |-> "SubscribeSystemParams",
     subscribe_board_params |-> "SubscribeBoardParams",
     subscribe_channel_params |-> "SubscribeChannelParams"]

\* the socket operations of ensure-server-listening, where it has to act
ServerStep ==
    IF op.before.skt_server = 0 /\ system_type # R6060
    THEN <<"bind", "listen">> ELSE <<>>

\* the operations of ensure-client-connected, where it is reached and has
\* to act
ClientStep ==
    IF op.res # OK \/ op.before.skt_client # 0 THEN <<>>
    ELSE IF system_type # R6060 THEN <<"accept">>
    ELSE IF SocketReadFailed THEN <<"GetSysProp">>
    ELSE <<"GetSysProp", "fromfd">>

\* The last subscribe issued its calls in the order ensure-server, native
\* subscribe, ensure-client, and the native call was passed the Device's
\* port and the colon-joined names.
SubscribeInOrder ==
    LET k == Len(ServerStep) + 1 IN
    /\ [i \in 1 .. Len(calls) |-> calls[i].fn]
          = ServerStep \o <<SubscribeFn[op.name]>> \o ClientStep
    /\ calls[k].port = port
    /\ calls[k].name = ColonJoined(op.n)
    /\ calls[k].n = op.n

SocketFields == <<port, skt_server, skt_client>>

FieldsBefore == <<op.before.port, op.before.skt_server, op.before.skt_client>>

\* C10 as stated: each subscribe performs ensure-server-listening, the
\* native subscribe with the bound port and the colon-joined names, then
\* ensure-client-connected, in this order; at most one listening socket is
\* ever created and at most one client socket accepted; a second subscribe
\* changes neither skt_server, skt_client nor port.
C10_SecondSubscribeChangesNothing ==
    /\ n_listen <= 1 /\ n_accept <= 1
    /\ op.name \in SubscribeOps =>
        /\ SubscribeInOrder
        /\ op.again => SocketFields = FieldsBefore

\* C10, amended: the order is as stated, with ensure-client-connected
\* reached only when the native subscribe returned OK; at most one listening
\* socket is ever created and at most one client socket obtained; a
\* subscribe on a Device whose skt_server is set changes neither skt_server
\* nor port, and one on a Device whose skt_client is set changes none of
\* skt_server, skt_client and port.  A subscribe that follows one whose
\* native call failed finds skt_client unset and sets it.
C10_EnsureStepsIdempotent ==
    /\ n_listen <= 1 /\ n_accept <= 1
    /\ op.name \in SubscribeOps =>
        /\ SubscribeInOrder
        /\ system_type # R6060 => skt_server = 1
        /\ op.res # OK => skt_client = op.before.skt_client
        /\ (op.res = OK /\ ~SocketReadFailed) => skt_client = 1
        /\ op.before.skt_server # 0 =>
              skt_server = op.before.skt_server /\ port = op.before.port
        /\ op.before.skt_client # 0 => SocketFields = FieldsBefore

C10_Witness ==
    /\ op.name = "subscribe_system_params" /\ op.again /\ op.res = OK
    /\ op.n = 2 /\ system_type = SY4527
    /\ op.before.skt_server = 1 /\ op.before.skt_client = 0
    /\ skt_client = 1 /\ n_listen = 1 /\ n_accept = 1
    /\ Len(calls) = 2 /\ calls[1].name = "VMon:IMon" /\ calls[1].port = port
    /\ calls[2].fn = "accept"


UnsubscribeOps ==
    {"unsubscribe_system_params", "unsubscribe_board_params",
     "unsubscribe_channel_params"}

SocketFns == {"socket", "bind", "listen", "accept", "connect"}

\* C11: an unsubscribe over a non-empty parameter list, whose native call
\* returned OK, raises iff at least one result code is non-zero, and the
\* error names exactly the indices of the non-zero codes; it creates, binds
\* and accepts no socket and changes neither skt_server, skt_client nor port.
C11_UnsubscribeRaisesIffCodeNonZero ==
    (op.name \in UnsubscribeOps /\ op.n > 0 /\ op.res = OK) =>
        /\ exc # NoExc <=> NonZero(op.codes) # {}
        /\ exc # NoExc => NamesFailed(op.codes)
        /\ SocketFields = FieldsBefore
        /\ \A k \in 1 .. Len(calls) : calls[k].fn \notin SocketFns

SubscriptionFns ==
    {"SubscribeSystemParams", "SubscribeBoardParams",
     "SubscribeChannelParams", "UnSubscribeSystemParams",
     "UnSubscribeBoardParams", "UnSubscribeChannelParams"}

\* the ports the native subscribe and unsubscribe calls of the last method
\* were passed, and the ports it bound
PortsPassed ==
    {calls[k].port : k \in {j \in 1 .. Len(calls) :
                               calls[j].fn \in SubscriptionFns \cup {"bind"}}}

\* C12 as stated: on a Device that is not an R6060, a listening socket is
\* bound to port 10001 + the Device's current handle, and every native
\* subscribe or unsubscribe call is passed 10001 + the current handle.
C12_PortFollowsHandle ==
    (exists /\ system_type # R6060) =>
        /\ skt_server # 0 => port = EVENT_PORT_BASE + handle
        /\ PortsPassed \subseteq {EVENT_PORT_BASE + handle}

\* a step that creates the listening socket binds it to 10001 + the handle
\* of that moment; later steps rebind neither the socket nor the port, as
\* long as the Device lasts
PortBoundOnce ==
    (exists /\ exists' /\ system_type # R6060) =>
        /\ (skt_server = 0 /\ skt_server' # 0) =>
               port' = EVENT_PORT_BASE + handle /\ handle' = handle
        /\ skt_server # 0 => (skt_server' = skt_server /\ port' = port)

\* C12, amended: on a Device that is not an R6060, the listening socket is
\* bound to port 10001 + the handle the Device had when the socket was
\* created and is never rebound, close and connect included; every native
\* subscribe or unsubscribe call is passed the Device's port field, which is
\* that bound port once the socket exists and 0 before.
C12_PortBoundOnce ==
    /\ [][PortBoundOnce]_vars
    /\ []((exists /\ system_type # R6060) =>
            /\ PortsPassed \subseteq {port}
            /\ skt_server = 0 => port = 0)

\* an unsubscribe on a reconnected Device whose handle is no longer the one
\* its listening socket was bound with
C12_Witness ==
    /\ exists /\ system_type # R6060 /\ opened
    /\ skt_server # 0 /\ port # EVENT_PORT_BASE + handle
    /\ op.name \in UnsubscribeOps /\ PortsPassed = {port}

LookupFns == {"GetSysPropInfo", "GetBdParamProp", "GetChParamProp"}

\* the calls of the last method that belong to a type lookup, and those of
\* them that ask for the type
Lookups == {k \in 1 .. Len(calls) : calls[k].fn \in LookupFns}

TypeQueries ==
    {k \in Lookups : calls[k].fn = "GetSysPropInfo" \/ calls[k].prop = "Type"}

\* the lookup the indices of the event select, on the item of the event
SelectedLookup(k) ==
    /\ calls[k].name = op.pname
    /\ k > 1
    /\ IF op.slot = -1 THEN calls[k].fn = "GetSysPropInfo"
       ELSE IF op.idx = <<-1>>
       THEN calls[k].fn = "GetBdParamProp" /\ calls[k].slot = op.slot
       ELSE /\ calls[k].fn = "GetChParamProp" /\ calls[k].slot = op.slot
            /\ calls[k].idx = op.idx

\* the member of the union that matches the discovered type
MemberFor ==
    IF op.slot = -1
    THEN IF op.ptype = STR THEN "StringValue"
         ELSE IF op.ptype = REAL THEN "FloatValue" ELSE "IntValue"
    ELSE IF op.ptype = PARAM_STRING THEN "StringValue"
         ELSE IF op.ptype = NUMERIC THEN "FloatValue" ELSE "IntValue"

\* C13: get_event_data on a Device whose client socket is set, when
\* GetEventData delivered an event: for KEEPALIVE
\* and ALARM no lookup call is issued and the value returned is the default;
\* for every other event type the type is asked for exactly once, after the
\* event was read, by the lookup the indices select (system property when
\* the board index is -1, board parameter when only the channel index is -1,
\* channel parameter otherwise), and the value returned is read from the
\* member matching the discovered type.
C13_EventDecoding ==
    (op.name = "get_event_data" /\ skt_client # 0 /\ op.res = OK
        /\ op.etype \in EventType) =>
        /\ calls[1].fn = "GetEventData"
        /\ IF op.etype \in {KEEPALIVE, ALARM}
           THEN /\ Lookups = {}
                /\ exc = NoExc => op.vkind = "default"
           ELSE /\ Cardinality(TypeQueries) = 1
                /\ \A k \in Lookups : SelectedLookup(k)
                /\ exc = NoExc => op.vkind = MemberFor

\* a channel-parameter event of a NUMERIC parameter was decoded
C13_Witness ==
    /\ op.name = "get_event_data" /\ op.res = OK /\ op.etype = PARAMETER
    /\ op.slot = 0 /\ op.idx = <<0>> /\ op.ptype = NUMERIC
    /\ exc = NoExc /\ op.vkind = "FloatValue"
    /\ Cardinality(Lookups) > 1

\* C14: exec_comm(name) issues exactly one native call, ExecComm with the
\* Device's handle and the command name, and no other native call.
C14_ExecCommIssuesExecComm ==
    op.name = "exec_comm" =>
        /\ Len(calls) = 1
        /\ calls[1].fn = "ExecComm"
        /\ calls[1].handle = handle
        /\ calls[1].name = op.pname

ParamPropOps == {"get_bd_param_prop", "get_ch_param_prop"}

\* the field of the returned ParamProp that holds a sub-attribute is unset
FieldUnset(attr) ==
    IF attr = "Type" THEN op.prop.type = None
    ELSE IF attr = "Mode" THEN op.prop.mode = ""
    ELSE IF attr = "Minval" THEN op.prop.minval = ""
    ELSE IF attr = "Maxval" THEN op.prop.maxval = ""
    ELSE IF attr = "Unit" THEN op.prop.unit = ""
    ELSE IF attr = "Exp" THEN op.prop.exp = ""
    ELSE IF attr = "Onstate" THEN op.prop.onstate = ""
    ELSE IF attr = "Offstate" THEN op.prop.offstate = ""
    ELSE op.prop.enum = ""

\* C15: in get_bd_param_prop and get_ch_param_prop (Free succeeding), the
\* failure of any sub-attribute query is absorbed: the call raises nothing
\* and returns a ParamProp whose field for each failed query is unset,
\* whatever the other queries answered.
C15_SubQueryFailuresAbsorbed ==
    (op.name \in ParamPropOps /\ op.res = OK) =>
        /\ exc = NoExc
        /\ \A attr \in op.fails : FieldUnset(attr)

\* the last method was a property-shape query that found the type NUMERIC
NumericShape ==
    /\ op.name \in ParamPropOps
    /\ op.ptype = NUMERIC /\ "Type" \notin op.fails
    /\ exc = NoExc

\* C20: for a NUMERIC parameter the returned ParamProp.minval holds the
\* answer to the 'Exp' query, or is unset when the Exp query failed,
\* whatever the Minval query answered; ParamProp.exp is always unset.
C20_ExpAssignedToMinval ==
    NumericShape =>
        /\ op.prop.minval = IF "Exp" \in op.fails THEN "" ELSE "Exp"
        /\ op.prop.exp = ""
        /\ op.prop.type = NUMERIC

\* the Minval query answered and the Exp query failed: minval is unset
C20_Witness ==
    /\ NumericShape
    /\ "Minval" \notin op.fails /\ "Exp" \in op.fails
    /\ op.prop.minval = "" /\ op.prop.maxval = "Maxval"
    /\ Len(calls) = 6 /\ calls[3].prop = "Minval" /\ calls[6].prop = "Exp"

\* the fields of the Device other than handle and opened
IdentityFields == <<system_type, conn, port, skt_server, skt_client>>

\* a step of connect: on an opened Device, on a closed one with InitSystem
\* succeeding, and with InitSystem failing
ConnectEffect ==
    IF opened
    THEN /\ exc'.type = "RuntimeError" /\ calls' = <<>>
         /\ UNCHANGED <<handle, opened, IdentityFields>>
    ELSE /\ Len(calls') = 1
         /\ calls'[1].fn = "InitSystem"
         /\ calls'[1].sys = system_type /\ calls'[1].conn = conn
         /\ UNCHANGED IdentityFields
         /\ IF op'.res = OK
            THEN exc' = NoExc /\ opened' /\ handle' = nat_handle'
            ELSE exc'.type = "Error" /\ UNCHANGED <<handle, opened>>

\* C16: connect on an opened Device raises RuntimeError, issues no native
\* call and changes no field; on a closed Device it issues InitSystem with
\* the stored system_type, link_type, arg, username and password, and
\* changes only handle (to the returned value) and opened (to True) when the
\* call succeeds, and no field when it fails.
C16_ReconnectPreservesIdentity ==
    [][(exists /\ op'.name = "connect") => ConnectEffect]_vars

\* a Device with its sockets set was reconnected and got another handle
\* than the one its port derives from
C16_Witness ==
    /\ op.name = "connect" /\ op.res = OK /\ exc = NoExc
    /\ opened /\ handle = nat_handle
    /\ skt_server # 0 /\ skt_client # 0
    /\ port # EVENT_PORT_BASE + handle
    /\ calls = <<InitSystemCall(system_type, conn)>>

ParamOps == {"get_bd_param", "set_bd_param", "get_ch_param", "set_ch_param"}

ParamValueFns == {"GetBdParam", "SetBdParam", "GetChParam", "SetChParam"}

\* the positions in calls of the property-shape queries and of the value
\* calls of the last method
ShapeQueries == {k \in 1 .. Len(calls) : calls[k].fn \in ParamPropFns}

ValueCalls == {k \in 1 .. Len(calls) : calls[k].fn \in ParamValueFns}

\* a property-shape query addressed at the first index of the list
AtFirstIndex(k) ==
    IF op.slot = None
    THEN calls[k].slot = op.idx[1] /\ calls[k].fn = "GetBdParamProp"
    ELSE /\ calls[k].slot = op.slot /\ calls[k].idx = <<op.idx[1]>>
         /\ calls[k].fn = "GetChParamProp"

\* the shape the claim gives each discovered type: float for NUMERIC, str
\* for STRING, int for every other type
ShapeFor(param_type) ==
    IF param_type = NUMERIC THEN "float"
    ELSE IF param_type = PARAM_STRING THEN "str"
    ELSE "int"

\* the last method is a get, or a set of a value of the shape of the type
FitsType ==
    op.name \in SetParamOps => op.vkind = ShapeFor(op.ptype)

\* C18: a get or set of a board or channel parameter over an index list of
\* length >= 1 asks for the type exactly once, at the first index of the
\* list, and then (the type discovered, the value of a set of its shape)
\* issues exactly one native value call, carrying all the indices in their
\* order; a get that returns has one value per index.
C18_BatchAddressing ==
    (op.name \in ParamOps /\ op.n >= 1) =>
        /\ Cardinality({k \in ShapeQueries : calls[k].prop = "Type"}) = 1
        /\ \A k \in ShapeQueries : AtFirstIndex(k)
        /\ Cardinality(ValueCalls) <= 1
        /\ \A k \in ValueCalls :
             /\ k = Len(calls) /\ ShapeQueries # {}
             /\ calls[k].idx = op.idx /\ calls[k].n = Len(op.idx)
             /\ calls[k].name = op.pname /\ calls[k].slot = op.slot
        /\ (op.ptype \in ParamType /\ FitsType) =>
               Cardinality(ValueCalls) = 1
        /\ (exc = NoExc /\ op.name \in {"get_bd_param", "get_ch_param"}) =>
               op.n_values = Len(op.idx)

SetIssued == \E k \in 1 .. Len(calls) : calls[k].fn \in SetParamFns

\* C19: a set over a non-empty index list issues the native set call only
\* when the type query returned a type and the value has the shape of that
\* type (float for NUMERIC, str for STRING, int otherwise); any other
\* combination fails with an assertion error and no native set call, and a
\* value of the shape of the discovered type is accepted: it reaches the
\* native set call.
C19_SetValidatesShape ==
    (op.name \in SetParamOps /\ op.n >= 1) =>
        /\ SetIssued => (op.ptype \in ParamType
                            /\ op.vkind = ShapeFor(op.ptype))
        /\ (op.ptype \in ParamType /\ op.vkind # ShapeFor(op.ptype)) =>
               (exc.type = "AssertionError" /\ ~SetIssued)
        /\ (op.ptype \in ParamType /\ op.vkind = ShapeFor(op.ptype)) =>
               SetIssued

\* the slice of the last Registers operation has its start and its stop
SliceGiven ==
    r_key.kind = "slice" /\ r_key.start # {} /\ r_key.stop # {}

SliceStart == CHOOSE x \in r_key.start : TRUE

SliceStop == CHOOSE x \in r_key.stop : TRUE

\* range(start, stop, step) for a step that is not 0: its length, then its
\* elements
RangeOf(start, stop, step) ==
    LET n == IF step > 0 /\ stop > start
             THEN (stop - start + step - 1) \div step
             ELSE IF step < 0 /\ start > stop
             THEN (start - stop - step - 1) \div (-step)
             ELSE 0
    IN  [i \in 1 .. n |-> start + (i - 1) * step]

\* the addresses the callables were invoked with, in order
RECURSIVE AddressesOf(_)
AddressesOf(log) ==
    IF log = <<>> THEN <<>> ELSE Head(log).addresses \o AddressesOf(Tail(log))

Accessed == AddressesOf(r_res.log)

Refused(e) == r_res.exc = e /\ r_res.log = <<>>

\* C17 as stated: a slice with start or stop missing raises ValueError; a
\* slice assigned a sequence whose length differs from the number of
\* addressed registers raises ValueError; a key that is neither int nor
\* slice raises TypeError; none of these invokes a callable; for a slice
\* with start and stop the addresses accessed are range(start, stop,
\* step or 1), in order.
C17_StrictRangeValidation ==
    r_fn # "" =>
        LET step_or_1 == IF r_key.step \in {{}, {0}} THEN 1
                         ELSE CHOOSE x \in r_key.step : TRUE
            addressed == RangeOf(SliceStart, SliceStop, step_or_1)
        IN  /\ (r_key.kind = "slice" /\ ~SliceGiven) => Refused("ValueError")
            /\ r_key.kind = "str" => Refused("TypeError")
            /\ (SliceGiven /\ r_fn = "__setitem__" /\ r_value.is_seq
                  /\ Len(r_value.items) # Len(addressed)) =>
                   Refused("ValueError")
            /\ (SliceGiven /\ r_res.exc = "none") => Accessed = addressed

\* C17, amended: subscripting with a slice whose start or stop is missing
\* raises ValueError, and so does assigning a sequence to it; assigning to
\* a slice a value that is not a sequence raises TypeError, as does a key
\* that is neither int nor slice; a slice with a step of 0 raises
\* ValueError; a slice assigned a sequence whose length differs from the
\* number of addressed registers raises ValueError; none of these invokes
\* a callable; otherwise the addresses accessed are range(start, stop,
\* 1 if step is None else step), in order.
C17_RangeValidation ==
    r_fn # "" =>
        LET step == IF r_key.step = {} THEN 1
                    ELSE CHOOSE x \in r_key.step : TRUE
            addressed == RangeOf(SliceStart, SliceStop, step)
            not_seq == r_fn = "__setitem__" /\ ~r_value.is_seq
        IN  /\ r_key.kind = "str" => Refused("TypeError")
            /\ (r_key.kind = "slice" /\ not_seq) => Refused("TypeError")
            /\ (r_key.kind = "slice" /\ ~not_seq /\ ~SliceGiven) =>
                   Refused("ValueError")
            /\ (SliceGiven /\ ~not_seq /\ step = 0) => Refused("ValueError")
            /\ (SliceGiven /\ ~not_seq /\ step # 0) =>
                   IF r_fn = "__setitem__"
                        /\ Len(r_value.items) # Len(addressed)
                   THEN Refused("ValueError")
                   ELSE r_res.exc = "none" /\ Accessed = addressed

\* a slice with a negative step was assigned through the setter: the
\* registers were written from the highest address down
C17_Witness ==
    /\ r_fn = "__setitem__" /\ ~r_multi /\ SliceGiven /\ r_key.step = {-1}
    /\ r_res.exc = "none" /\ Len(r_res.log) = 2
    /\ Accessed = <<SliceStart, SliceStart - 1>>
    /\ r_res.log[2].values = <<r_value.items[2]>>


InfoOps == {"get_bd_param_info", "get_ch_param_info"}

\* the last method was an enumeration whose native call succeeded and left
\* names in slots of string_size bytes, and Free succeeded
LaidOutAt(string_size) ==
    /\ op.name \in InfoOps
    /\ op.res = OK
    /\ op.info.string_size = string_size
    /\ exc.func # bound_name("Free")

\* board scope returns no count; in channel scope the count returned is the
\* number of names in the buffer
CountAgrees ==
    op.name = "get_bd_param_info" \/ op.info.size = Len(op.info.strs)

\* the names of the buffer are returned in order, and a count that differs
\* from their number fails the call
Enumerated(string_size) ==
    LaidOutAt(string_size) =>
        IF CountAgrees THEN exc = NoExc /\ op.out = op.info.strs
        ELSE exc # NoExc

\* C21 as stated: for a buffer holding k non-empty names at a 20-byte
\* stride followed by an empty name, get_bd_param_info and get_ch_param_info
\* return exactly those k names in order, and in channel scope a count that
\* differs from k fails the call.
C21_Stride20 == Enumerated(20)

\* C21, amended: for a buffer holding k non-empty names at a 10-byte stride
\* (MAX_PARAM_NAME) followed by an empty name, get_bd_param_info and
\* get_ch_param_info (the native calls succeeding) return exactly those k
\* names in order, and in channel scope a count that differs from k fails
\* the call (AssertionError).
C21_Stride10 ==
    /\ Enumerated(MAX_PARAM_NAME)
    /\ (LaidOutAt(MAX_PARAM_NAME) /\ ~CountAgrees) =>
           exc.type = "AssertionError"

\* two names ten bytes apart, with bytes after each NUL that are not NUL,
\* were returned in channel scope
C21_Witness ==
    /\ LaidOutAt(MAX_PARAM_NAME)
    /\ op.name = "get_ch_param_info"
    /\ op.info.pad # NUL
    /\ op.info.size = 2
    /\ op.out = BoardNames(2)
    /\ exc = NoExc
    /\ Len(calls) = 2 /\ calls[1].fn = "GetChParamInfo"
    /\ calls[2].fn = "Free"


\* the entry points and socket operations the last method went through
FnsCalled == [i \in 1 .. Len(calls) |-> calls[i].fn]

\* C22: on a Device whose system_type is R6060 no sequence of subscribe
\* calls creates a listening socket (skt_server stays None, nothing is bound,
\* listened on or accepted); a subscribe that obtains the client socket does
\* so after its native subscribe call, by wrapping the descriptor read from
\* the 'EventDataSocket' system property, and that read issues GetSysProp
\* and no GetSysPropInfo.
C22_R6060UsesLibrarySocket ==
    (exists /\ system_type = R6060) =>
        /\ skt_server = 0 /\ n_listen = 0
        /\ \A i \in 1 .. Len(calls) :
              calls[i].fn \notin {"bind", "listen", "accept", "GetSysPropInfo"}
        /\ op.name \in SubscribeOps =>
             IF skt_client # op.before.skt_client
             THEN /\ FnsCalled
                       = <<SubscribeFn[op.name], "GetSysProp", "fromfd">>
                  /\ calls[2].name = "EventDataSocket"
                  /\ op.res = OK /\ op.res_skt = OK
                  /\ op.before.skt_client = 0 /\ port = 0
             ELSE \A i \in 1 .. Len(calls) : calls[i].fn # "fromfd"

\* an R6060 was subscribed to a second time, the first subscribe having left
\* no client socket, and the descriptor read from the property was wrapped
C22_Witness ==
    /\ exists /\ system_type = R6060
    /\ op.name = "subscribe_channel_params" /\ op.again
    /\ op.before.skt_client = 0 /\ skt_client = 1 /\ skt_server = 0
    /\ Len(calls) = 3 /\ calls[2].fn = "GetSysProp"
    /\ calls[2].name = "EventDataSocket" /\ calls[3].fn = "fromfd"
    /\ exc = NoExc


\* the last method was a subscribe on a Device that is not an R6060
SubscribedOther == op.name \in SubscribeOps /\ system_type # R6060

\* ... that found the Device with neither socket and whose native call
\* returned a status other than OK
FailedFirstSubscribe ==
    /\ SubscribedOther
    /\ op.before.skt_server = 0 /\ op.before.skt_client = 0
    /\ op.res # OK

\* ... that found the listening socket in place and no client socket
SubscribedWhileListening ==
    /\ SubscribedOther
    /\ op.before.skt_server # 0 /\ op.before.skt_client = 0

\* C23: when the native subscribe call returns a status other than OK on a
\* Device that is not an R6060 and has neither socket, the subscribe raises
\* Error and leaves the listening socket set, port = 10001 + handle and the
\* client socket unset, no accept having been attempted; get_event_data on
\* a Device without client socket raises ('Events not initialized') without
\* a native call; and a later subscribe keeps the listening socket and the
\* port and binds nothing.
C23_FailedSubscribeLeavesServerListening ==
    /\ FailedFirstSubscribe =>
          /\ exc.type = "Error" /\ exc.func = bound_name(SubscribeFn[op.name])
          /\ skt_server # 0 /\ n_listen = op.before.n_listen + 1
          /\ port = EVENT_PORT_BASE + handle
          /\ skt_client = 0 /\ n_accept = op.before.n_accept
          /\ FnsCalled = <<"bind", "listen", SubscribeFn[op.name]>>
    /\ (op.name = "get_event_data" /\ skt_client = 0) =>
          exc.type = "RuntimeWarning" /\ calls = <<>>
    /\ SubscribedWhileListening =>
          /\ skt_server = op.before.skt_server /\ port = op.before.port
          /\ n_listen = op.before.n_listen
          /\ \A i \in 1 .. Len(calls) : calls[i].fn \notin {"bind", "listen"}
          /\ op.res = OK => skt_client # 0 /\ calls[2].fn = "accept"

\* get_event_data was called on a Device left listening, without client
\* socket, by a subscribe whose native call failed
C23_Witness ==
    /\ exists /\ system_type # R6060 /\ subscribed
    /\ op.name = "get_event_data"
    /\ skt_server # 0 /\ skt_client = 0
    /\ port = EVENT_PORT_BASE + handle
    /\ n_listen = 1 /\ n_accept = 0
    /\ exc.type = "RuntimeWarning" /\ calls = <<>>


\* entry of device_closed: DeinitSystem is issued with the Device's handle
\* and, when it succeeds, the body is entered with opened False; when it
\* fails the Error is raised and no block is entered
ClosedOnEntry ==
    op.name = "device_closed_enter" =>
        /\ FnsCalled = <<"DeinitSystem">> /\ calls[1].handle = handle
        /\ IF op.res = OK
           THEN /\ exc = NoExc /\ ~opened
                /\ blocks # <<>> /\ Innermost = "device_closed"
           ELSE exc.type = "Error" /\ opened = op.was_opened

\* exit of a with device: block: DeinitSystem iff opened was True
ClosedOnExit ==
    op.name = "__exit__" =>
        /\ FnsCalled = IF op.was_opened THEN <<"DeinitSystem">> ELSE <<>>
        /\ (op.was_opened /\ op.res = OK) => ~opened /\ exc = op.body
        /\ ~op.was_opened => ~opened /\ exc = op.body

\* exit of device_closed from a body that left the Device closed: one
\* InitSystem, and opened is True when it succeeds
ReconnectedOnExit ==
    /\ FnsCalled = <<"InitSystem">>
    /\ calls[1].sys = system_type /\ calls[1].conn = conn
    /\ IF op.res = OK THEN opened /\ exc = op.body
       ELSE ~opened /\ exc.type = "Error"

\* C24 as stated: device_closed issues DeinitSystem on entry and, if that
\* succeeds, the body runs with opened False; when the body exits, normally
\* or by exception, InitSystem is attempted exactly once and opened is True
\* after the block whenever it succeeds; leaving a with device: block issues
\* DeinitSystem iff opened is True at exit.
C24_InitSystemAttemptedOnce ==
    /\ ClosedOnEntry
    /\ op.name = "device_closed_exit" => ReconnectedOnExit
    /\ ClosedOnExit

\* C24, amended: as stated, with connect attempted exactly once when the
\* body exits: it issues InitSystem exactly once when opened is False at
\* that point, and when the body has reopened the Device it raises
\* RuntimeError without a native call, opened staying True.
C24_ConnectAttemptedOnce ==
    /\ ClosedOnEntry
    /\ op.name = "device_closed_exit" =>
          IF op.was_opened
          THEN calls = <<>> /\ exc.type = "RuntimeError" /\ opened
          ELSE ReconnectedOnExit
    /\ ClosedOnExit

\* the body of a device_closed block left with an exception, the Device
\* closed, and InitSystem succeeded: the Device is opened and the exception
\* of the body is raised
C24_Witness ==
    /\ op.name = "device_closed_exit"
    /\ ~op.was_opened /\ op.body # NoExc /\ op.res = OK
    /\ opened /\ exc = op.body
    /\ Len(calls) = 1 /\ calls[1].fn = "InitSystem"

=============================================================================
